---------------------------- MODULE Spec2Model ----------------------------
(***************************************************************************)
(* A model of radj307/calc: the lexer, the primitive tokenizer, the         *)
(* shunting-yard converter to_rpn, the stack evaluator evaluate_rpn, the    *)
(* Number value model and the statement loop of main().                     *)
(*                                                                          *)
(* Text is a sequence of one-character strings.  Positions are the 0-based  *)
(* stream offsets of the source; text[p + 1] is the character at offset p.  *)
(***************************************************************************)
EXTENDS Integers, Sequences, FiniteSets, TLC

(***************************************************************************)
(* Bounds of the model.                                                     *)
(***************************************************************************)
\* the largest number of statements in one input of the session
MaxStmts == 3
\* the largest single-digit operand used in the generated arithmetic inputs
MaxOperand == 4
\* the largest number of tokens evaluate_rpn is fed in the stack-machine runs
MaxRpnLen == 4
\* the largest exponent / shift count / factorial operand that is evaluated
MaxExp == 10

(***************************************************************************)
(* Characters                                                               *)
(***************************************************************************)
DigitChars == <<"0", "1", "2", "3", "4", "5", "6", "7", "8", "9">>

Digits == {DigitChars[k] : k \in 1..10}

Letters == {"a", "b", "c", "d", "e", "f", "g", "h", "i", "j", "k", "l", "m",
            "n", "o", "p", "q", "r", "s", "t", "u", "v", "w", "x", "y", "z"}

HexLetters == {"a", "b", "c", "d", "e", "f"}

\* a lexer that skips nothing
NoWhitespace == {}

Whitespace == {" "}

isalpha(c) == c \in Letters

isdigit(c) == c \in Digits

isbinarydigit(c) == c \in {"0", "1"}

ishexdigit(c) == c \in Digits \cup HexLetters

DigitVal(c) ==
    IF c \in Digits THEN (CHOOSE k \in 1..10 : DigitChars[k] = c) - 1
    ELSE CASE c = "a" -> 10 [] c = "b" -> 11 [] c = "c" -> 12
           [] c = "d" -> 13 [] c = "e" -> 14 [] c = "f" -> 15

(***************************************************************************)
(* Number: a tagged integer / real value.  A real is held as the fraction   *)
(* n / d in lowest terms with d > 0; the integer variant has d = 1.         *)
(***************************************************************************)
\* the element of a one-element set.  A name bound over {e} holds the value
\* of e, so e is computed once however often the name is used.
The(S) == CHOOSE v \in S : TRUE

Abs(x) == IF x < 0 THEN -x ELSE x

RECURSIVE GCD(_, _)
GCD(a, b) == IF b = 0 THEN a ELSE The({GCD(b, m) : m \in {a % b}})

\* division of the integer type: truncates toward zero
TruncDiv(a, b) ==
    IF (a >= 0) = (b > 0) THEN Abs(a) \div Abs(b) ELSE -(Abs(a) \div Abs(b))

\* remainder of the integer type: takes the sign of the dividend
TruncMod(a, b) == a - b * TruncDiv(a, b)

\* Number(int_t const&): always the integer variant
NumberInt(v) == [t |-> "int", n |-> v, d |-> 1]

\* a constructor that keeps the real variant whatever the value is
NumberRealKept(num, den) ==
    LET g == GCD(Abs(num), den)
    IN  [t |-> "real", n |-> num \div g, d |-> den \div g]

\* Number(real_t const&): the integer variant when trunc(value) == value
NumberReal(num, den) ==
    LET g == GCD(Abs(num), den)
    IN  IF den \div g = 1
        THEN [t |-> "int", n |-> num \div g, d |-> 1]
        ELSE [t |-> "real", n |-> num \div g, d |-> den \div g]

\* Number(bool)
NumberBool(b) == NumberInt(IF b THEN 1 ELSE 0)

is_integer(x) == x.t = "int"

has_integral_value(x) == is_integer(x) \/ x.d = 1

is_zero(x) == x.n = 0

is_positive(x) == x.n > 0

NumAdd(l, r) ==
    IF l.t = "int" /\ r.t = "int" THEN NumberInt(l.n + r.n)
    ELSE NumberReal(l.n * r.d + r.n * l.d, l.d * r.d)

NumSub(l, r) ==
    IF l.t = "int" /\ r.t = "int" THEN NumberInt(l.n - r.n)
    ELSE NumberReal(l.n * r.d - r.n * l.d, l.d * r.d)

NumMul(l, r) ==
    IF l.t = "int" /\ r.t = "int" THEN NumberInt(l.n * r.n)
    ELSE NumberReal(l.n * r.n, l.d * r.d)

\* a division that is always done in the real type
NumDivReal(l, r) ==
    IF r.n > 0 THEN NumberReal(l.n * r.d, l.d * r.n)
    ELSE NumberReal(-(l.n * r.d), l.d * (-r.n))

\* r is not zero (the evaluator checks before dividing)
NumDiv(l, r) ==
    IF l.t = "int" /\ r.t = "int" THEN NumberInt(TruncDiv(l.n, r.n))
    ELSE IF r.n > 0 THEN NumberReal(l.n * r.d, l.d * r.n)
         ELSE NumberReal(-(l.n * r.d), l.d * (-r.n))

\* r is not zero; fmod(l, r) == l - r * trunc(l / r)
NumMod(l, r) ==
    IF l.t = "int" /\ r.t = "int" THEN NumberInt(TruncMod(l.n, r.n))
    ELSE LET q == TruncDiv(l.n * r.d, l.d * r.n)
         IN  NumberReal(l.n * r.d - q * r.n * l.d, l.d * r.d)

NumNeg(x) == IF x.t = "int" THEN NumberInt(-x.n) ELSE NumberReal(-x.n, x.d)

NumEq(l, r) == l.n * r.d = r.n * l.d

NumLess(l, r) == l.n * r.d < r.n * l.d

RECURSIVE BitAndNat(_, _)
BitAndNat(a, b) ==
    IF a = 0 \/ b = 0 THEN 0
    ELSE (a % 2) * (b % 2) + 2 * BitAndNat(a \div 2, b \div 2)

RECURSIVE BitOrNat(_, _)
BitOrNat(a, b) ==
    IF a = 0 THEN b ELSE IF b = 0 THEN a
    ELSE (IF a % 2 = 1 \/ b % 2 = 1 THEN 1 ELSE 0) + 2 * BitOrNat(a \div 2, b \div 2)

RECURSIVE BitXorNat(_, _)
BitXorNat(a, b) ==
    IF a = 0 THEN b ELSE IF b = 0 THEN a
    ELSE (IF a % 2 = b % 2 THEN 0 ELSE 1) + 2 * BitXorNat(a \div 2, b \div 2)

RECURSIVE IntPow(_, _)
IntPow(b, e) == IF e = 0 THEN 1 ELSE b * IntPow(b, e - 1)

(***************************************************************************)
(* Lexer (lexer::getNextLexeme, lexer::get_lexemes).  main() appends a      *)
(* space after every parameter, so the buffer always ends with whitespace   *)
(* and a peek inside a lexeme never meets the end of the stream.            *)
(***************************************************************************)
\* peekCharAt: the character at offset p, "EOF" past the end
peekCharAt(text, p) == IF p < Len(text) THEN text[p + 1] ELSE "EOF"

\* the text of the stream between two offsets
TextRange(text, from, to) == SubSeq(text, from + 1, to)

lexeme(type, pos, txt) == [type |-> type, pos |-> pos, text |-> txt]

\* getWhile(predicate): the offset of the first character not in the set
RECURSIVE getWhile(_, _, _)
getWhile(text, p, set) ==
    IF peekCharAt(text, p) \in set THEN getWhile(text, p + 1, set) ELSE p

\* GET_NEXT_BINARY_SEGMENT: binary digits, and an underscore only when a
\* binary digit follows it
RECURSIVE BinarySegments(_, _)
BinarySegments(text, p) ==
    LET q == getWhile(text, p, {"0", "1"})
    IN  IF peekCharAt(text, q) = "_" /\ isbinarydigit(peekCharAt(text, q + 1))
        THEN BinarySegments(text, q + 1)
        ELSE q

\* the while loop of the octal / integral / real branch; p is the getter
\* position; returns where the number ends and the two flags
RECURSIVE NumberLoop(_, _, _, _)
NumberLoop(text, p, hasDecimalPoint, has8DigitOrHigher) ==
    LET c    == peekCharAt(text, p)
        stop == [p |-> p, hasDecimalPoint |-> hasDecimalPoint,
                 has8DigitOrHigher |-> has8DigitOrHigher]
    IN  IF ~(c \in {".", ",", "_"} \/ isdigit(c)) THEN stop
        ELSE IF c = "."
             THEN IF ~hasDecimalPoint
                  THEN NumberLoop(text, p + 1, TRUE, has8DigitOrHigher)
                  ELSE stop
        ELSE IF c = "," /\ ~isdigit(peekCharAt(text, p + 1)) THEN stop
        ELSE IF hasDecimalPoint /\ c = "," THEN stop
        ELSE NumberLoop(text, p + 1, hasDecimalPoint,
                        has8DigitOrHigher \/ c \in {"8", "9"})

\* PARSE_NUMBER: c, the character at pos, is a digit or a '.' before a digit
ParseNumber(text, pos) ==
    LET first == text[pos + 1]
        startsWithZero == first = "0"
        c == peekCharAt(text, pos + 1)
        single == [lex |-> lexeme(IF startsWithZero THEN "OctalNumber" ELSE "IntNumber",
                                  pos, <<first>>),
                   next |-> pos + 1]
    IN  IF c = "EOF" THEN single
        ELSE IF startsWithZero /\ c = "b"
             THEN LET e == BinarySegments(text, pos + 2)
                  IN  [lex |-> lexeme("BinaryNumber", pos, TextRange(text, pos, e)),
                       next |-> e]
        ELSE IF startsWithZero /\ c = "x"
             THEN LET e == getWhile(text, pos + 2, Digits \cup HexLetters)
                  IN  [lex |-> lexeme("HexNumber", pos, TextRange(text, pos, e)),
                       next |-> e]
        ELSE IF c = "." \/ first = "." \/ isdigit(c)
             THEN LET r == NumberLoop(text, pos + 2, c = "." \/ first = ".",
                                      c \in {"8", "9"})
                      type == IF r.hasDecimalPoint THEN "RealNumber"
                              ELSE IF startsWithZero /\ ~r.has8DigitOrHigher
                                   THEN "OctalNumber"
                                   ELSE "IntNumber"
                  IN  [lex |-> lexeme(type, pos, TextRange(text, pos, r.p)),
                       next |-> r.p]
        ELSE single

\* the switch over punctuation characters
PunctuationType(c) ==
    CASE c = "=" -> "Equal"
      [] c = ":" -> "Colon"
      [] c = ";" -> "Semicolon"
      [] c \in {"+", "-", "*", "/", "%", "!", "|", "&", "^", "~"} -> "Operator"
      [] c = "_" -> "Underscore"
      [] c = "." -> "Period"
      [] c = "," -> "Comma"
      [] c \in {"$", "@"} -> "Macro"
      [] c = "<" -> "AngleBracketOpen"
      [] c = ">" -> "AngleBracketClose"
      [] c = "[" -> "SquareBracketOpen"
      [] c = "]" -> "SquareBracketClose"
      [] c = "(" -> "ParenthesisOpen"
      [] c = ")" -> "ParenthesisClose"
      [] c = "{" -> "BraceOpen"
      [] c = "}" -> "BraceClose"
      [] OTHER -> "Unknown"

\* getNextLexeme from getter position p: the lexeme and the new position
getNextLexeme(text, p) ==
    LET pos == getWhile(text, p, Whitespace)
        c   == peekCharAt(text, pos)
    IN  IF c = "EOF" THEN [lex |-> lexeme("_EOF", pos, <<"EOF">>), next |-> pos]
        ELSE IF isalpha(c) THEN [lex |-> lexeme("Alpha", pos, <<c>>), next |-> pos + 1]
        ELSE IF isdigit(c) THEN ParseNumber(text, pos)
        ELSE IF c = "\\"
             THEN [lex |-> lexeme("Escape", pos, <<c, peekCharAt(text, pos + 1)>>),
                   next |-> pos + 2]
        ELSE IF c = "." /\ isdigit(peekCharAt(text, pos + 1)) THEN ParseNumber(text, pos)
        ELSE [lex |-> lexeme(PunctuationType(c), pos, <<c>>), next |-> pos + 1]

\* get_lexemes: every lexeme up to and including the end-of-file lexeme
RECURSIVE LexemesFrom(_, _)
LexemesFrom(text, p) ==
    The({IF r.lex.type = "_EOF" THEN <<r.lex>>
         ELSE <<r.lex>> \o LexemesFrom(text, r.next) : r \in {getNextLexeme(text, p)}})

get_lexemes(text) == LexemesFrom(text, 0)

(***************************************************************************)
(* Token helpers (basic_token, combine_tokens) and the type predicates.     *)
(***************************************************************************)
getEndPos(tok) == tok.pos + Len(tok.text)

\* an adjacency test that never fails
isAdjacentToAlways(tok, other) == TRUE

isAdjacentTo(tok, other) ==
    getEndPos(other) = tok.pos \/ getEndPos(tok) = other.pos

primitive(type, lex) == [type |-> type, pos |-> lex.pos, text |-> lex.text]

\* the blanks combine_tokens inserts between two tokens that are apart
RECURSIVE Padding(_)
Padding(n) == IF n <= 0 THEN <<>> ELSE <<" ">> \o Padding(n - 1)

\* combine_tokens(type, begin, end) over lexemes[from .. to]
RECURSIVE CombinedText(_, _, _)
CombinedText(lexemes, from, to) ==
    IF from > to THEN <<>>
    ELSE IF from = to THEN lexemes[from].text
    ELSE CombinedText(lexemes, from, to - 1)
         \o Padding(lexemes[to].pos - getEndPos(lexemes[to - 1]))
         \o lexemes[to].text

combine_tokens(type, lexemes, from, to) ==
    [type |-> type, pos |-> lexemes[from].pos, text |-> CombinedText(lexemes, from, to)]

NumberTypes == {"BinaryNumber", "OctalNumber", "HexNumber", "IntNumber", "RealNumber"}

\* is_number(PrimitiveTokenType): one of the five numeric kinds
is_number(type) == type \in NumberTypes

\* evaluates_to_number(PrimitiveTokenType): a number, a variable, a function
\* call or the opening of a sub-expression
evaluates_to_number(type) ==
    type \in NumberTypes \cup {"Variable", "FunctionName", "ExpressionOpen"}

\* evaluates_to_number(LexemeType): a lexeme that starts an operand
lexeme_evaluates_to_number(type) ==
    type \in NumberTypes \cup {"Alpha", "ParenthesisOpen"}

(***************************************************************************)
(* FunctionMap: the registered names with their parameter counts.  The      *)
(* model invokes pow, max, min, abs and fma; atan, atan2, log and log2 are  *)
(* registered names that the model only tokenizes.                          *)
(***************************************************************************)
FunctionNames ==
    {<<"p", "o", "w">>, <<"m", "a", "x">>, <<"m", "i", "n">>,
     <<"a", "b", "s">>, <<"f", "m", "a">>}

RegisteredNames ==
    FunctionNames \cup
    {<<"a", "t", "a", "n">>, <<"a", "t", "a", "n", "2">>,
     <<"l", "o", "g">>, <<"l", "o", "g", "2">>}

isFunction(name) == name \in RegisteredNames

getParamsCount(name) ==
    CASE name \in {<<"a", "b", "s">>, <<"a", "t", "a", "n">>, <<"l", "o", "g">>,
                   <<"l", "o", "g", "2">>} -> 1
      [] name = <<"f", "m", "a">> -> 3
      [] OTHER -> 2

(***************************************************************************)
(* Primitive tokenizer (primitive_tokenizer).  Lexemes are indexed from 1;  *)
(* the end iterator is Len(lexemes) + 1.                                    *)
(***************************************************************************)
\* findNext: the first lexeme of the type at or after k, or the end
RECURSIVE findNext(_, _, _)
findNext(lexemes, k, type) ==
    IF k > Len(lexemes) THEN k
    ELSE IF lexemes[k].type = type THEN k
    ELSE findNext(lexemes, k + 1, type)

\* a search that takes the first close, whatever the depth
RECURSIVE findPairCloseFlat(_, _, _, _)
findPairCloseFlat(lexemes, k, stopBefore, depth) ==
    IF k >= stopBefore THEN stopBefore
    ELSE IF lexemes[k].type = "ParenthesisClose" THEN k
    ELSE findPairCloseFlat(lexemes, k + 1, stopBefore, depth)

\* findPairClose: the close that brings the depth back to zero, searching
\* lexemes[k .. stopBefore - 1]; stopBefore when there is none
RECURSIVE findPairClose(_, _, _, _)
findPairClose(lexemes, k, stopBefore, depth) ==
    IF k >= stopBefore THEN stopBefore
    ELSE IF lexemes[k].type = "ParenthesisOpen"
         THEN findPairClose(lexemes, k + 1, stopBefore, depth + 1)
    ELSE IF lexemes[k].type = "ParenthesisClose"
         THEN IF depth - 1 = 0 THEN k
              ELSE findPairClose(lexemes, k + 1, stopBefore, depth - 1)
    ELSE findPairClose(lexemes, k + 1, stopBefore, depth)

\* a pairing that looks for the close past the semicolons
PairCloseOfAcross(lexemes, k) ==
    findPairClose(lexemes, k, Len(lexemes) + 1, 0)

\* the close paired with the open at k, searched up to the next semicolon
PairCloseOf(lexemes, k) ==
    findPairClose(lexemes, k, findNext(lexemes, k, "Semicolon"), 0)

\* a pre-pass that accepts every input
ValidateBracketsSkipped(lexemes, k) == [kind |-> "none"]

\* the bracket pre-pass of tokenize(): the first lexeme that makes it throw,
\* with the message, or "none"
RECURSIVE ValidateBrackets(_, _)
ValidateBrackets(lexemes, k) ==
    IF k > Len(lexemes) THEN [kind |-> "none"]
    ELSE IF lexemes[k].type = "ParenthesisOpen"
              /\ PairCloseOf(lexemes, k) = findNext(lexemes, k, "Semicolon")
         THEN [kind |-> "Unmatched open bracket", at |-> k]
    ELSE IF lexemes[k].type = "ParenthesisClose"
              /\ ~\E j \in 1..(k - 1) :
                     /\ lexemes[j].type = "ParenthesisOpen"
                     /\ PairCloseOf(lexemes, j) = k
         THEN [kind |-> "Unmatched close bracket", at |-> k]
    ELSE ValidateBrackets(lexemes, k + 1)

\* findFirstNonAdjacentOrNotOfType(start, Alpha, Underscore)
RECURSIVE findFirstNonAdjacentOrNotOfType(_, _)
findFirstNonAdjacentOrNotOfType(lexemes, prev) ==
    LET cur == prev + 1
    IN  IF cur > Len(lexemes) THEN cur
        ELSE IF lexemes[cur].type \notin {"Alpha", "Underscore"}
                \/ ~isAdjacentTo(lexemes[cur], lexemes[prev])
             THEN cur
        ELSE findFirstNonAdjacentOrNotOfType(lexemes, cur)

\* the token of one lexeme and the token of two combined ones; last is the
\* index of the last lexeme consumed
One(type, lexemes, k) == [tok |-> primitive(type, lexemes[k]), last |-> k]

Two(type, lexemes, k) == [tok |-> combine_tokens(type, lexemes, k, k + 1), last |-> k + 1]

\* getNextPrimitiveFrom(iterator, previousPrimitive); prev is <<>> for nullptr
\* and <<token>> otherwise
getNextPrimitiveFrom(lexemes, k, prev, caretIsExponent) ==
    LET lex  == lexemes[k]
        next == lexemes[k + 1]
        c    == lex.text[1]
        adjacentNext(type) == next.type = type /\ isAdjacentTo(lex, next)
    IN  CASE lex.type = "Semicolon" -> One("Separator", lexemes, k)
          [] lex.type = "Equal" ->
                IF adjacentNext("Equal") THEN Two("Equal", lexemes, k)
                ELSE One("Setter", lexemes, k)
          [] lex.type = "Colon" -> One("Setter", lexemes, k)
          [] lex.type = "Comma" -> One("TermSeparator", lexemes, k)
          [] lex.type = "Operator" ->
               (CASE c = "+" -> One("Add", lexemes, k)
                  [] c = "-" ->
                        IF /\ k + 1 <= Len(lexemes)
                           /\ \/ prev = <<>>
                              \/ ~evaluates_to_number(prev[1].type)
                              \/ prev[1].type = "ExpressionOpen"
                           /\ lexeme_evaluates_to_number(next.type)
                        THEN One("Negate", lexemes, k)
                        ELSE One("Subtract", lexemes, k)
                  [] c = "*" -> One("Multiply", lexemes, k)
                  [] c = "/" -> One("Divide", lexemes, k)
                  [] c = "%" -> One("Modulo", lexemes, k)
                  [] c = "!" ->
                        IF adjacentNext("Equal") THEN Two("NotEqual", lexemes, k)
                        ELSE IF /\ prev # <<>>
                                /\ isAdjacentTo(lex, prev[1])
                                /\ evaluates_to_number(prev[1].type)
                             THEN One("Factorial", lexemes, k)
                             ELSE One("LogicalNOT", lexemes, k)
                  [] c = "|" ->
                        IF adjacentNext("Operator") /\ next.text = <<"|">>
                        THEN Two("LogicalOR", lexemes, k)
                        ELSE One("BitOR", lexemes, k)
                  [] c = "&" ->
                        IF adjacentNext("Operator") /\ next.text = <<"&">>
                        THEN Two("LogicalAND", lexemes, k)
                        ELSE One("BitAND", lexemes, k)
                  [] c = "^" ->
                        One(IF caretIsExponent THEN "Exponent" ELSE "BitXOR", lexemes, k)
                  [] c = "~" -> One("BitNOT", lexemes, k))
          [] lex.type = "AngleBracketOpen" ->
                IF adjacentNext("AngleBracketOpen") THEN Two("BitshiftLeft", lexemes, k)
                ELSE IF adjacentNext("Equal") THEN Two("LessOrEqual", lexemes, k)
                ELSE One("LessThan", lexemes, k)
          [] lex.type = "AngleBracketClose" ->
                IF adjacentNext("AngleBracketClose") THEN Two("BitshiftRight", lexemes, k)
                ELSE IF adjacentNext("Equal") THEN Two("GreaterOrEqual", lexemes, k)
                ELSE One("GreaterThan", lexemes, k)
          [] lex.type = "SquareBracketOpen" -> One("ArrayOpen", lexemes, k)
          [] lex.type = "SquareBracketClose" -> One("ArrayClose", lexemes, k)
          [] lex.type \in NumberTypes -> One(lex.type, lexemes, k)
          [] lex.type = "Alpha" ->
                LET nextNonAlpha == findFirstNonAdjacentOrNotOfType(lexemes, k)
                    alphaStr == CombinedText(lexemes, k, nextNonAlpha - 1)
                IN  IF /\ nextNonAlpha <= Len(lexemes)
                       /\ lexemes[nextNonAlpha].type = "ParenthesisOpen"
                       /\ isFunction(alphaStr)
                    THEN [tok |-> combine_tokens("FunctionName", lexemes, k, nextNonAlpha - 1),
                          last |-> nextNonAlpha - 1]
                    ELSE [tok |-> combine_tokens("Variable", lexemes, k, nextNonAlpha - 1),
                          last |-> nextNonAlpha - 1]
          [] lex.type = "ParenthesisOpen" -> One("ExpressionOpen", lexemes, k)
          [] lex.type = "ParenthesisClose" -> One("ExpressionClose", lexemes, k)
          [] OTHER -> One("Unknown", lexemes, k)

\* the loop of tokenize() that turns every lexeme before _EOF into primitives
RECURSIVE PrimitivesFrom(_, _, _, _)
PrimitivesFrom(lexemes, k, primitives, caretIsExponent) ==
    IF k > Len(lexemes) \/ lexemes[k].type = "_EOF" THEN primitives
    ELSE LET prev == IF primitives = <<>> THEN <<>>
                     ELSE <<primitives[Len(primitives)]>>
         IN  The({The({PrimitivesFrom(lexemes, next, done, caretIsExponent) :
                       next \in {r.last + 1}, done \in {Append(primitives, r.tok)}}) :
                  r \in {getNextPrimitiveFrom(lexemes, k, prev, caretIsExponent)}})

\* tokenize(): throws on the first unmatched bracket, else the primitives
tokenize(lexemes, caretIsExponent) ==
    IF Len(lexemes) = 0 THEN [ok |-> TRUE, tokens |-> <<>>]
    ELSE The({IF bad.kind # "none"
              THEN [ok |-> FALSE, err |-> bad.kind]
              ELSE [ok |-> TRUE,
                    tokens |-> PrimitivesFrom(lexemes, 1, <<>>, caretIsExponent)] :
              bad \in {ValidateBrackets(lexemes, 1)}})

(***************************************************************************)
(* split_vec: the statements between Separator tokens.                      *)
(***************************************************************************)
RECURSIVE SplitFrom(_, _, _, _)
SplitFrom(vec, k, out, buf) ==
    IF k > Len(vec) THEN (IF buf # <<>> THEN Append(out, buf) ELSE out)
    ELSE IF vec[k].type = "Separator"
         THEN SplitFrom(vec, k + 1, Append(out, buf), <<>>)
         ELSE SplitFrom(vec, k + 1, out, Append(buf, vec[k]))

split_vec(vec) == SplitFrom(vec, 1, <<>>, <<>>)

(***************************************************************************)
(* OperatorPrecedence                                                       *)
(***************************************************************************)
\* a table in which * / % bind no tighter than + and -
PrecedenceTableFlat ==
    [Factorial |-> 6, FunctionName |-> 6, Exponent |-> 5, Negate |-> 4,
     Multiply |-> 2, Divide |-> 2, Modulo |-> 2, Add |-> 2, Subtract |-> 2,
     BitshiftLeft |-> 3, BitshiftRight |-> 3, BitNOT |-> 2,
     BitAND |-> 1, BitOR |-> 1, BitXOR |-> 1, LogicalNOT |-> 2,
     Equal |-> 1, NotEqual |-> 1, LessThan |-> 1, LessOrEqual |-> 1,
     GreaterThan |-> 1, GreaterOrEqual |-> 1, LogicalOR |-> 0, LogicalAND |-> 0]

\* OperatorPrecedence::map; higher values have higher precedence
PrecedenceTable ==
    [Factorial |-> 6, FunctionName |-> 6, Exponent |-> 5, Negate |-> 4,
     Multiply |-> 3, Divide |-> 3, Modulo |-> 3, Add |-> 2, Subtract |-> 2,
     BitshiftLeft |-> 3, BitshiftRight |-> 3, BitNOT |-> 2,
     BitAND |-> 1, BitOR |-> 1, BitXOR |-> 1, LogicalNOT |-> 2,
     Equal |-> 1, NotEqual |-> 1, LessThan |-> 1, LessOrEqual |-> 1,
     GreaterThan |-> 1, GreaterOrEqual |-> 1, LogicalOR |-> 0, LogicalAND |-> 0]

\* (uint8_t)-1, what Get(type, -1) answers for a type outside the table
NoPrecedence == 255

\* OperatorPrecedence::Get(type, def)
OperatorPrecedenceGet(type, def) ==
    IF type \in DOMAIN PrecedenceTable THEN PrecedenceTable[type] ELSE def

(***************************************************************************)
(* to_rpn: the shunting-yard conversion.  The operator stack is a sequence  *)
(* whose last element is the top.                                           *)
(***************************************************************************)
pop_off(stack) == [value |-> stack[Len(stack)], rest |-> SubSeq(stack, 1, Len(stack) - 1)]

\* the look-ahead of the FunctionName case: the number of arguments counted
\* from primitives[k] on, at nesting depth `depth` with `count` so far
RECURSIVE CountParams(_, _, _, _)
CountParams(primitives, k, depth, count) ==
    IF k > Len(primitives) THEN count
    ELSE IF primitives[k].type = "ExpressionOpen"
         THEN CountParams(primitives, k + 1, depth + 1,
                          IF depth + 1 = 2 THEN count + 1 ELSE count)
    ELSE IF primitives[k].type = "ExpressionClose"
         THEN IF depth - 1 = 0 THEN count
              ELSE CountParams(primitives, k + 1, depth - 1, count)
    ELSE CountParams(primitives, k + 1, depth,
                     IF depth = 1 /\ evaluates_to_number(primitives[k].type)
                     THEN count + 1 ELSE count)

\* pops into the queue while the top is not an ExpressionOpen
RECURSIVE PopUntilOpen(_, _)
PopUntilOpen(queue, operators) ==
    IF operators # <<>> /\ operators[Len(operators)].type # "ExpressionOpen"
    THEN The({PopUntilOpen(Append(queue, top.value), top.rest) :
              top \in {pop_off(operators)}})
    ELSE [queue |-> queue, operators |-> operators]

\* pops into the queue while the top is an operator of precedence
\* at least tknPrecedence
\* a loop that leaves an operator of the same precedence on the stack
RECURSIVE PopHigher(_, _, _)
PopHigher(queue, operators, tknPrecedence) ==
    IF /\ operators # <<>>
       /\ operators[Len(operators)].type # "ExpressionOpen"
       /\ OperatorPrecedenceGet(operators[Len(operators)].type, 0) > tknPrecedence
    THEN The({PopHigher(Append(queue, top.value), top.rest, tknPrecedence) :
              top \in {pop_off(operators)}})
    ELSE [queue |-> queue, operators |-> operators]

\* the while loop of the default case: the operators on top of the stack that
\* do not have a lower precedence go to the queue
RECURSIVE PopNotLower(_, _, _)
PopNotLower(queue, operators, tknPrecedence) ==
    IF /\ operators # <<>>
       /\ operators[Len(operators)].type # "ExpressionOpen"
       /\ OperatorPrecedenceGet(operators[Len(operators)].type, 0) >= tknPrecedence
    THEN The({PopNotLower(Append(queue, top.value), top.rest, tknPrecedence) :
              top \in {pop_off(operators)}})
    ELSE [queue |-> queue, operators |-> operators]

\* an end that leaves the operators on the stack
FlushNothing(queue, operators) == queue

\* the final loop: every operator left goes to the queue, top first
RECURSIVE Flush(_, _)
Flush(queue, operators) ==
    IF operators = <<>> THEN queue
    ELSE The({Flush(Append(queue, top.value), top.rest) : top \in {pop_off(operators)}})

ToRpnFail(err) == [ok |-> FALSE, err |-> err]

\* the default case: an operator (or function name) goes to the stack
PushOperator(tkn, queue, operators) ==
    LET tknPrecedence == OperatorPrecedenceGet(tkn.type, NoPrecedence)
        popped == PopNotLower(queue, operators, tknPrecedence)
    IN  IF tknPrecedence = NoPrecedence
        THEN ToRpnFail([kind |-> "not a recognized operator", type |-> tkn.type])
        ELSE [ok |-> TRUE, queue |-> popped.queue,
              operators |-> Append(popped.operators, tkn)]

\* one iteration of the loop of to_rpn, for primitives[k]
ToRpnStep(primitives, k, queue, operators) ==
    LET tkn == primitives[k]
    IN  IF tkn.type \in NumberTypes \cup {"Variable"}
        THEN [ok |-> TRUE, queue |-> Append(queue, tkn), operators |-> operators]
        ELSE IF tkn.type = "ExpressionOpen"
        THEN [ok |-> TRUE, queue |-> queue, operators |-> Append(operators, tkn)]
        ELSE IF tkn.type = "ExpressionClose"
        THEN LET popped == PopUntilOpen(queue, operators)
             IN  IF popped.operators = <<>>
                 THEN ToRpnFail([kind |-> IF operators = <<>>
                                          THEN "Mismatched parentheses"
                                          ELSE "unmatched closing parenthesis"])
                 ELSE LET rest == pop_off(popped.operators).rest
                      IN  IF rest # <<>> /\ rest[Len(rest)].type = "FunctionName"
                          THEN [ok |-> TRUE,
                                queue |-> Append(popped.queue, pop_off(rest).value),
                                operators |-> pop_off(rest).rest]
                          ELSE [ok |-> TRUE, queue |-> popped.queue, operators |-> rest]
        ELSE IF tkn.type = "TermSeparator"
        THEN LET popped == PopUntilOpen(queue, operators)
             IN  IF popped.operators = <<>>
                 THEN ToRpnFail([kind |-> "comma found outside function call"])
                 ELSE [ok |-> TRUE, queue |-> popped.queue,
                       operators |-> popped.operators]
        ELSE IF tkn.type = "FunctionName"
        THEN LET paramsCount == getParamsCount(tkn.text)
                 count == CountParams(primitives, k, 0, 0)
             IN  IF count # paramsCount
                 THEN ToRpnFail([kind |-> "parameter count", name |-> tkn.text,
                                 expected |-> paramsCount, actual |-> count])
                 ELSE PushOperator(tkn, queue, operators)
        ELSE PushOperator(tkn, queue, operators)

RECURSIVE ToRpnFrom(_, _, _, _)
ToRpnFrom(primitives, k, queue, operators) ==
    IF k > Len(primitives)
    THEN [ok |-> TRUE, rpn |-> Flush(queue, operators)]
    ELSE The({IF r.ok THEN ToRpnFrom(primitives, k + 1, r.queue, r.operators)
              ELSE r : r \in {ToRpnStep(primitives, k, queue, operators)}})

\* to_rpn(primitives, fnMap): the RPN expression, or the exception thrown
to_rpn(primitives) == ToRpnFrom(primitives, 1, <<>>, <<>>)

(***************************************************************************)
(* from_base and primitiveToNumber: the text of a numeric token to a Number *)
(***************************************************************************)
RECURSIVE RemoveChars(_, _)
RemoveChars(txt, set) ==
    IF txt = <<>> THEN <<>>
    ELSE IF txt[1] \in set THEN RemoveChars(Tail(txt), set)
    ELSE <<txt[1]>> \o RemoveChars(Tail(txt), set)

\* the value of a digit string in the base, most significant digit first
RECURSIVE DigitsValue(_, _)
DigitsValue(txt, base) ==
    IF txt = <<>> THEN 0
    ELSE The({DigitsValue(front, base) : front \in {SubSeq(txt, 1, Len(txt) - 1)}}) * base
         + DigitVal(txt[Len(txt)])

ValidDigits(txt, base) ==
    /\ txt # <<>>
    /\ \A k \in 1..Len(txt) : ishexdigit(txt[k]) /\ DigitVal(txt[k]) < base

IndexOf(txt, c) == IF \E k \in 1..Len(txt) : txt[k] = c
                   THEN CHOOSE k \in 1..Len(txt) : txt[k] = c /\ \A j \in 1..(k - 1) : txt[j] # c
                   ELSE 0

BadLiteral(txt) == [ok |-> FALSE, err |-> [kind |-> "bad literal", text |-> txt]]

\* from_base(n, base).  A decimal string goes to the constructor of int_t or
\* real_t, which rejects any character that is not part of a number (such as
\* a ',') and reads an integer with a leading 0 as octal.
from_base(n, base) ==
    IF base = 10
    THEN IF IndexOf(n, ".") # 0
         THEN LET dot  == IndexOf(n, ".")
                  whole == SubSeq(n, 1, dot - 1)
                  frac  == SubSeq(n, dot + 1, Len(n))
              IN  IF /\ \A k \in 1..Len(whole) : isdigit(whole[k])
                     /\ \A k \in 1..Len(frac) : isdigit(frac[k])
                     /\ Len(whole) + Len(frac) > 0
                  THEN [ok |-> TRUE,
                        value |-> NumberReal(DigitsValue(whole \o frac, 10),
                                             IntPow(10, Len(frac)))]
                  ELSE BadLiteral(n)
         ELSE IF Len(n) > 1 /\ n[1] = "0"
              THEN IF ValidDigits(Tail(n), 8)
                   THEN [ok |-> TRUE, value |-> NumberInt(DigitsValue(Tail(n), 8))]
                   ELSE BadLiteral(n)
              ELSE IF ValidDigits(n, 10)
                   THEN [ok |-> TRUE, value |-> NumberInt(DigitsValue(n, 10))]
                   ELSE BadLiteral(n)
    ELSE IF ValidDigits(n, base)
         THEN [ok |-> TRUE, value |-> NumberInt(DigitsValue(n, base))]
         ELSE BadLiteral(n)

StartsWith(txt, prefix) ==
    Len(txt) >= Len(prefix) /\ SubSeq(txt, 1, Len(prefix)) = prefix

primitiveToNumber(tkn) ==
    LET text == RemoveChars(tkn.text, Whitespace \cup {"_"})
    IN  CASE tkn.type = "BinaryNumber" ->
                from_base(IF StartsWith(text, <<"0", "b">>)
                          THEN SubSeq(text, 3, Len(text)) ELSE text, 2)
          [] tkn.type = "OctalNumber" -> from_base(text, 8)
          [] tkn.type = "HexNumber" ->
                from_base(IF StartsWith(text, <<"0", "x">>)
                          THEN SubSeq(text, 3, Len(text)) ELSE text, 16)
          [] tkn.type \in {"IntNumber", "RealNumber"} -> from_base(text, 10)
          [] OTHER -> [ok |-> FALSE,
                       err |-> [kind |-> "primitiveToNumber does not support", type |-> tkn.type]]

(***************************************************************************)
(* The operators of Number that can throw, and the functions of the        *)
(* FunctionMap.  Results are [ok |-> TRUE, value |-> n] or                  *)
(* [ok |-> FALSE, err |-> e].  The values the model computes are bounded:   *)
(* an operation outside the bounds answers the error "outside the model",   *)
(* which no behaviour of the specifications reaches.                        *)
(***************************************************************************)
Ok(v) == [ok |-> TRUE, value |-> v]

Outside == [ok |-> FALSE, err |-> [kind |-> "outside the model"]]

\* the largest left operand of a shift or a bitwise operator
MaxBits == 1024
\* the largest magnitude of a numerator or denominator the model computes with
MaxValue == 30000

\* base^exp <= limit, for base >= 0
RECURSIVE PowWithin(_, _, _)
PowWithin(base, exp, limit) ==
    \/ exp = 0
    \/ base <= limit /\ PowWithin(base, exp - 1, limit \div (IF base = 0 THEN 1 ELSE base))

\* the operands fma is computed for
Small(x) == Abs(x.n) <= MaxExp * MaxExp /\ x.d <= MaxExp

RequiresIntegral(op, side, x) ==
    [ok |-> FALSE,
     err |-> [kind |-> "requires integral types", op |-> op, side |-> side, value |-> x]]

\* the binary operators without the check of the right operand
BitwiseBinaryLeftOnly(op, l, r) ==
    IF ~has_integral_value(l) THEN RequiresIntegral(op, "left", l)
    ELSE IF l.n < 0 \/ l.n > MaxBits THEN Outside
    ELSE CASE op = "BitOR" -> Ok(NumberInt(BitOrNat(l.n, Abs(r.n) \div r.d)))
           [] op = "BitAND" -> Ok(NumberInt(BitAndNat(l.n, Abs(r.n) \div r.d)))
           [] op = "BitXOR" -> Ok(NumberInt(BitXorNat(l.n, Abs(r.n) \div r.d)))
           [] op = "BitshiftLeft" -> Ok(NumberInt(l.n * IntPow(2, Abs(r.n) \div r.d)))
           [] op = "BitshiftRight" -> Ok(NumberInt(l.n \div IntPow(2, Abs(r.n) \div r.d)))

\* operator| operator& operator^ operator<< operator>> of Number
BitwiseBinary(op, l, r) ==
    IF ~has_integral_value(l) THEN RequiresIntegral(op, "left", l)
    ELSE IF ~has_integral_value(r) THEN RequiresIntegral(op, "right", r)
    ELSE IF l.n < 0 \/ r.n < 0 \/ l.n > MaxBits \/ r.n > MaxBits THEN Outside
    ELSE CASE op = "BitOR" -> Ok(NumberInt(BitOrNat(l.n, r.n)))
           [] op = "BitAND" -> Ok(NumberInt(BitAndNat(l.n, r.n)))
           [] op = "BitXOR" -> Ok(NumberInt(BitXorNat(l.n, r.n)))
           [] op = "BitshiftLeft" ->
                 IF r.n > MaxExp THEN Outside ELSE Ok(NumberInt(l.n * IntPow(2, r.n)))
           [] op = "BitshiftRight" ->
                 IF r.n > MaxExp THEN Outside ELSE Ok(NumberInt(l.n \div IntPow(2, r.n)))

\* operator~ of Number
BitwiseNOT(x) ==
    IF ~has_integral_value(x)
    THEN [ok |-> FALSE, err |-> [kind |-> "requires integral type", op |-> "BitNOT"]]
    ELSE Ok(NumberInt(-x.n - 1))

\* intmath factorial
RECURSIVE factorial(_)
factorial(n) == IF n > 1 THEN n * factorial(n - 1) ELSE 1

\* pow(base, exp) of Number
pow(base, exp) ==
    IF has_integral_value(base) /\ has_integral_value(exp)
    THEN IF exp.n >= 0 /\ exp.n <= MaxExp /\ PowWithin(Abs(base.n), exp.n, MaxValue)
         THEN Ok(NumberInt(IntPow(base.n, exp.n)))
         ELSE Outside
    ELSE Outside

\* max, min, abs and fma of Number
max(a, b) == Ok(IF NumLess(a, b) THEN b ELSE a)

min(a, b) == Ok(IF NumLess(b, a) THEN b ELSE a)

abs(x) == Ok(IF x.n < 0 THEN NumNeg(x) ELSE x)

fma(x, y, z) ==
    IF Small(x) /\ Small(y) /\ Small(z)
    THEN Ok(NumberReal(x.n * y.n * z.d + z.n * x.d * y.d, x.d * y.d * z.d))
    ELSE Outside

\* FunctionMap::invoke(functionName, args)
invoke(name, params) ==
    CASE name = <<"p", "o", "w">> -> pow(params[1], params[2])
      [] name = <<"m", "a", "x">> -> max(params[1], params[2])
      [] name = <<"m", "i", "n">> -> min(params[1], params[2])
      [] name = <<"a", "b", "s">> -> abs(params[1])
      [] name = <<"f", "m", "a">> -> fma(params[1], params[2], params[3])

(***************************************************************************)
(* VarMap: a function from the names that are defined to their values.      *)
(***************************************************************************)
isDefined(varMap, name) == name \in DOMAIN varMap

\* an insert that keeps the value of a name already present
VarMapSetKeepsFirst(varMap, name, value) ==
    [n \in DOMAIN varMap \cup {name} |-> IF n \in DOMAIN varMap THEN varMap[n] ELSE value]

\* variables[name] = value
VarMapSet(varMap, name, value) ==
    [n \in DOMAIN varMap \cup {name} |-> IF n = name THEN value ELSE varMap[n]]

\* an unset that stores zero instead of removing the name
VarMapEraseZero(varMap, name) ==
    [n \in DOMAIN varMap \cup {name} |-> IF n = name THEN NumberInt(0) ELSE varMap[n]]

\* VarMap::erase
VarMapErase(varMap, name) == [n \in DOMAIN varMap \ {name} |-> varMap[n]]

(***************************************************************************)
(* evaluate_rpn: the stack machine.  The operand stack is a sequence whose  *)
(* last element is the top.  A step answers the stack after the token, or   *)
(* the exception thrown with the stack as it was at the throw.              *)
(***************************************************************************)
UnaryOperators == {"Factorial", "Negate", "BitNOT", "LogicalNOT"}

BitwiseOperators == {"BitOR", "BitAND", "BitXOR", "BitshiftLeft", "BitshiftRight"}

BinaryOperators ==
    {"Exponent", "Add", "Subtract", "Multiply", "Divide", "Modulo",
     "Equal", "NotEqual", "LessThan", "LessOrEqual", "GreaterThan",
     "GreaterOrEqual", "LogicalOR", "LogicalAND"} \cup BitwiseOperators

Thrown(stack, err) == [ok |-> FALSE, stack |-> stack, err |-> err]

\* operands.push(result) after an operator or a function
Pushed(stack, r) ==
    IF ~r.ok THEN Thrown(stack, r.err)
    ELSE IF Abs(r.value.n) > MaxValue \/ r.value.d > MaxValue
    THEN Thrown(stack, Outside.err)
    ELSE [ok |-> TRUE, stack |-> Append(stack, r.value), operation |-> TRUE]

\* the parameters kept in the order they were popped
NotReversed(params) == params

\* std::reverse
Reverse(params) == [k \in 1..Len(params) |-> params[Len(params) + 1 - k]]

\* the n topmost operands, in the order they are popped
Popped(stack, n) == [k \in 1..n |-> stack[Len(stack) + 1 - k]]

Below(stack, n) == SubSeq(stack, 1, Len(stack) - n)

\* a division that does not look at the right operand first
DivideUnchecked(type, stack) ==
    LET right == stack[Len(stack)]
        left  == stack[Len(stack) - 1]
    IN  IF is_zero(right) THEN Pushed(Below(stack, 2), Ok(NumberInt(0)))
        ELSE Pushed(Below(stack, 2),
                    Ok(IF type = "Divide" THEN NumDiv(left, right) ELSE NumMod(left, right)))

\* the cases Divide and Modulo, reached with two operands or more
Divide(type, stack) ==
    LET right == stack[Len(stack)]
        left  == stack[Len(stack) - 1]
    IN  IF is_zero(right)
        THEN Thrown(Below(stack, 1), [kind |-> "Cannot divide by zero"])
        ELSE Pushed(Below(stack, 2),
                    Ok(IF type = "Divide" THEN NumDiv(left, right) ELSE NumMod(left, right)))

\* the cases of the binary operators other than Divide and Modulo
Binary(type, stack) ==
    LET right == stack[Len(stack)]
        left  == stack[Len(stack) - 1]
        rest  == Below(stack, 2)
    IN  CASE type = "Exponent" -> Pushed(rest, invoke(<<"p", "o", "w">>, <<left, right>>))
          [] type = "Add" -> Pushed(rest, Ok(NumAdd(left, right)))
          [] type = "Subtract" -> Pushed(rest, Ok(NumSub(left, right)))
          [] type = "Multiply" -> Pushed(rest, Ok(NumMul(left, right)))
          [] type \in BitwiseOperators -> Pushed(rest, BitwiseBinary(type, left, right))
          [] type = "Equal" -> Pushed(rest, Ok(NumberBool(NumEq(left, right))))
          [] type = "NotEqual" -> Pushed(rest, Ok(NumberBool(~NumEq(left, right))))
          [] type = "LessThan" -> Pushed(rest, Ok(NumberBool(NumLess(left, right))))
          [] type = "LessOrEqual" -> Pushed(rest, Ok(NumberBool(~NumLess(right, left))))
          [] type = "GreaterThan" -> Pushed(rest, Ok(NumberBool(NumLess(right, left))))
          [] type = "GreaterOrEqual" -> Pushed(rest, Ok(NumberBool(~NumLess(left, right))))
          [] type = "LogicalOR" ->
                Pushed(rest, Ok(NumberBool(~is_zero(left) \/ ~is_zero(right))))
          [] type = "LogicalAND" ->
                Pushed(rest, Ok(NumberBool(~is_zero(left) /\ ~is_zero(right))))

\* the cases of the unary operators, reached with one operand or more
Unary(type, stack) ==
    LET operand == stack[Len(stack)]
        rest    == Below(stack, 1)
    IN  CASE type = "Factorial" ->
                IF ~has_integral_value(operand) \/ (~is_positive(operand) /\ ~is_zero(operand))
                THEN Thrown(rest, [kind |-> "Factorial requires a positive integer"])
                ELSE IF operand.n > MaxExp THEN Thrown(rest, Outside.err)
                ELSE Pushed(rest, Ok(NumberInt(factorial(operand.n))))
          [] type = "Negate" -> Pushed(rest, Ok(NumNeg(operand)))
          [] type = "BitNOT" -> Pushed(rest, BitwiseNOT(operand))
          [] type = "LogicalNOT" -> Pushed(rest, Ok(NumberBool(is_zero(operand))))

\* a call that goes on with the parameters it found
CallFunctionShort(tkn, stack) ==
    LET paramsCount == getParamsCount(tkn.text)
        n == IF Len(stack) < paramsCount THEN Len(stack) ELSE paramsCount
        params == Popped(stack, n)
        rest == Below(stack, n)
    IN  IF Len(params) < paramsCount
        THEN Pushed(rest, Ok(NumberInt(0)))
        ELSE Pushed(rest, invoke(tkn.text, Reverse(params)))

\* the case FunctionName
CallFunction(tkn, stack) ==
    LET paramsCount == getParamsCount(tkn.text)
        n == IF Len(stack) < paramsCount THEN Len(stack) ELSE paramsCount
        params == Popped(stack, n)
        rest == Below(stack, n)
    IN  IF Len(params) < paramsCount
        THEN Thrown(rest, [kind |-> "function takes more operands", name |-> tkn.text,
                           expected |-> paramsCount, actual |-> Len(params)])
        ELSE Pushed(rest, invoke(tkn.text, Reverse(params)))

\* a read through VarMap::operator[] alone, which creates what is missing
ReadVariableCreating(tkn, stack, varMap) ==
    LET after == IF isDefined(varMap, tkn.text) THEN varMap
                 ELSE VarMapSet(varMap, tkn.text, NumberInt(0))
    IN  [ok |-> TRUE, stack |-> Append(stack, after[tkn.text]), operation |-> FALSE,
         varMap |-> after]

\* the case Variable: the value of a defined variable, or the exception
ReadVariable(tkn, stack, varMap) ==
    IF isDefined(varMap, tkn.text)
    THEN [ok |-> TRUE, stack |-> Append(stack, varMap[tkn.text]), operation |-> FALSE,
          varMap |-> varMap]
    ELSE [ok |-> FALSE, stack |-> stack,
          err |-> [kind |-> "undefined variable", name |-> tkn.text], varMap |-> varMap]

\* the body of the loop of evaluate_rpn for one token that is not a variable
EvalToken(tkn, stack) ==
    IF is_number(tkn.type)
    THEN LET r == primitiveToNumber(tkn)
         IN  IF r.ok
             THEN [ok |-> TRUE, stack |-> Append(stack, r.value), operation |-> FALSE]
             ELSE Thrown(stack, r.err)
    ELSE IF tkn.type = "FunctionName" THEN CallFunction(tkn, stack)
    ELSE IF tkn.type \in UnaryOperators
    THEN IF Len(stack) < 1
         THEN Thrown(stack, [kind |-> "Not enough operands", op |-> tkn.type])
         ELSE Unary(tkn.type, stack)
    ELSE IF tkn.type \in BinaryOperators
    THEN IF Len(stack) < 2
         THEN Thrown(stack, [kind |-> "Not enough operands", op |-> tkn.type])
         ELSE IF tkn.type \in {"Divide", "Modulo"} THEN Divide(tkn.type, stack)
         ELSE Binary(tkn.type, stack)
    ELSE Thrown(stack, [kind |-> "not implemented", type |-> tkn.type])

\* the body of the loop of evaluate_rpn for one token, with the VarMap it
\* leaves behind (the map is passed by reference)
EvalStep(tkn, stack, varMap) ==
    IF tkn.type = "Variable" THEN ReadVariable(tkn, stack, varMap)
    ELSE The({[f \in DOMAIN r \cup {"varMap"} |-> IF f = "varMap" THEN varMap ELSE r[f]] :
              r \in {EvalToken(tkn, stack)}})

\* an end that returns the top of any stack that is not empty
ReturnTop(stack, atLeastOne) ==
    IF stack = <<>>
    THEN [ok |-> FALSE, err |-> [kind |-> "No operands"]]
    ELSE [ok |-> TRUE, value |-> stack[Len(stack)]]

\* what follows the loop: exactly one operand must be left
Return(stack, atLeastOne) ==
    IF Len(stack) > 1
    THEN [ok |-> FALSE,
          err |-> IF atLeastOne
                  THEN [kind |-> "unmatched operands", result |-> stack[Len(stack)],
                        count |-> Len(stack) - 1]
                  ELSE [kind |-> "No operators were specified", count |-> Len(stack)]]
    ELSE IF stack = <<>>
    THEN [ok |-> FALSE, err |-> [kind |-> "No operands"]]
    ELSE [ok |-> TRUE, value |-> stack[Len(stack)]]

RECURSIVE EvalFrom(_, _, _, _, _)
EvalFrom(rpn, k, stack, atLeastOne, varMap) ==
    IF k > Len(rpn)
    THEN LET r == Return(stack, atLeastOne)
         IN  [f \in DOMAIN r \cup {"varMap"} |-> IF f = "varMap" THEN varMap ELSE r[f]]
    ELSE The({IF r.ok
              THEN EvalFrom(rpn, k + 1, r.stack, atLeastOne \/ r.operation, r.varMap)
              ELSE [ok |-> FALSE, err |-> r.err, varMap |-> r.varMap] :
              r \in {EvalStep(rpn[k], stack, varMap)}})

\* evaluate_rpn(rpn_expression, fnMap, vars): the value returned or the
\* exception thrown, and the VarMap afterwards
evaluate_rpn(rpn, varMap) ==
    The({EvalFrom(expression, 1, <<>>, FALSE, varMap) : expression \in {rpn}})

(***************************************************************************)
(* The inputs of the session: main() writes every parameter followed by a   *)
(* blank to exprbuf.  An input is one parameter holding statements joined   *)
(* by ";".                                                                  *)
(***************************************************************************)
Statements ==
    <<<<"a", " ", "=", " ", "5">>,
      <<"a", " ", "+", " ", "1">>,
      <<"a", " ", "=">>,
      <<"a", " ", ":", " ", "3">>,
      <<"p", "o", "w", "(", "2", ")">>,
      <<"2", " ", "$", " ", "3">>,
      <<"(", "3">>,
      <<"p", "o", "w", "(", "2", ",", "1", "0", ",", "5", ")">>,
      <<"a", " ", "=", " ", "1", " ", "/", " ", "0">>,
      <<"2", " ", "^", " ", "3">>>>

RECURSIVE Join(_)
Join(stmts) ==
    IF Len(stmts) = 1 THEN stmts[1]
    ELSE stmts[1] \o <<";">> \o Join(Tail(stmts))

\* exprbuf << param << ' '
Param(txt) == txt \o <<" ">>

\* the choices of up to MaxStmts statements
Picks == UNION {[1..n -> 1..Len(Statements)] : n \in 1..MaxStmts}

SessionInputs ==
    {Param(Join([k \in DOMAIN pick |-> Statements[pick[k]]])) : pick \in Picks}

Digit(v) == DigitChars[v + 1]

\* a + b * c
SumOfProduct(a, b, c) ==
    Param(<<Digit(a), " ", "+", " ", Digit(b), " ", "*", " ", Digit(c)>>)

\* (a + b) * c
ProductOfSum(a, b, c) ==
    Param(<<"(", Digit(a), " ", "+", " ", Digit(b), ")", " ", "*", " ", Digit(c)>>)

ArithmeticInputs ==
    {SumOfProduct(a, b, c) : a \in 0..MaxOperand, b \in 0..MaxOperand, c \in 0..MaxOperand}
    \cup
    {ProductOfSum(a, b, c) : a \in 0..MaxOperand, b \in 0..MaxOperand, c \in 0..MaxOperand}

\* a op1 b op2 c
Chain(a, op1, b, op2, c) ==
    Param(<<Digit(a), " ", op1, " ", Digit(b), " ", op2, " ", Digit(c)>>)

\* pairs of operators of one precedence
ChainOperators ==
    {<<"-", "-">>, <<"-", "+">>, <<"/", "/">>, <<"/", "*">>, <<"^", "^">>}

\* the chains; those of ^ only when (a ^ b) ^ c is within the bounds
ChainInputs ==
    {Chain(n[1], ops[1], n[2], ops[2], n[3]) :
        n \in [1..3 -> 0..MaxOperand], ops \in ChainOperators \ {<<"^", "^">>}}
    \cup
    {Chain(n[1], "^", n[2], "^", n[3]) :
        n \in {m \in [1..3 -> 0..MaxOperand] : PowWithin(m[1], m[2] * m[3], MaxValue)}}

\* calls whose arguments are sub-expressions, each with as many arguments as
\* the function declares
NestedCalls ==
    <<<<"p", "o", "w", "(", "1", " ", "+", " ", "2", ",", " ", "2", ")">>,
      <<"p", "o", "w", "(", "(", "1", ")", " ", "+", " ", "(", "2", ")", ",", " ", "3", ")">>,
      <<"m", "a", "x", "(", "m", "i", "n", "(", "1", ",", " ", "2", ")", ",", " ", "3", ")">>,
      <<"p", "o", "w", "(", "2", ",", " ", "1", "0", ")">>>>

CallInputs == {Param(NestedCalls[k]) : k \in DOMAIN NestedCalls}

\* expressions with a prefix operator after a binary operator or another
\* prefix operator, each with its value
PrefixCases ==
    <<[text |-> <<"1", " ", "+", " ", "~", "5">>, value |-> -5],
      [text |-> <<"3", " ", "*", " ", "!", "0">>, value |-> 3],
      [text |-> <<"~", "~", "5">>, value |-> 5],
      [text |-> <<"2", " ", "*", " ", "-", "3">>, value |-> -6],
      [text |-> <<"1", " ", "+", " ", "-", "2">>, value |-> -1]>>

PrefixInputs == {Param(PrefixCases[k].text) : k \in DOMAIN PrefixCases}

Inputs ==
    SessionInputs \cup ArithmeticInputs \cup CallInputs \cup ChainInputs
        \cup PrefixInputs

(***************************************************************************)
(* State                                                                    *)
(***************************************************************************)
VARIABLES
    exprbuf,              \* main: the text that is tokenized
    caretIsExponent,      \* main: the flag -^ / --pow
    pc,                   \* main: "start", "loop", "done" or "fatal"; tokenize():
                          \* "validate", "primitives", "tokenized"; get_lexemes():
                          \* "lexing", "lexed"; a call: "call"
    expressions,          \* main: the statements, each a sequence of primitives
    i,                    \* main: the index of the statement the loop is at
    result,               \* main: the value of the last statement evaluated
    variables,            \* main: the VarMap of the session
    out,                  \* what the run reported, one entry per statement
    operands,             \* evaluate_rpn: the operand stack
    atLeastOneOperation,  \* evaluate_rpn: true once an operator was applied
    steps,                \* evaluate_rpn: the number of tokens consumed
    it,                   \* evaluate_rpn: the token consumed last
    status,               \* evaluate_rpn: "idle", "running", "returned", "thrown"
    thrown,               \* evaluate_rpn: the exception thrown
    lexed,                \* tokenize: the lexemes from begin to end; get_lexemes: those read
    current,              \* tokenize: the iterator of the loop; get_lexemes: the getter position
    tokens,               \* tokenize: the primitives emitted so far
    call,                 \* a call of a function of the library, with its arguments
    ret                   \* what the call returned or threw

vars == <<exprbuf, caretIsExponent, pc, expressions, i, result, variables, out,
          operands, atLeastOneOperation, steps, it, status, thrown,
          lexed, current, tokens, call, ret>>

tokVars == <<lexed, current, tokens>>

fnVars == <<call, ret>>

NoCall == [fn |-> "none"]

Pending == [state |-> "pending"]

mainVars == <<exprbuf, caretIsExponent, pc, expressions, i, out>>

rpnVars == <<operands, atLeastOneOperation, steps, it, status, thrown>>

NoToken == [type |-> "Unknown", pos |-> 0, text |-> <<>>]

NoException == [kind |-> "none"]

\* the VarMap of a new session; Number{} of `result` is the integer 0
EmptyVarMap == <<>>

(***************************************************************************)
(* The session: main() from the tokenizing of exprbuf to the last statement *)
(***************************************************************************)
\* tokenize the expression, split it by separators, "Nothing to do!"
Startup(txt, caret) ==
    The({IF ~r.ok THEN [ok |-> FALSE, err |-> [kind |-> r.err]]
         ELSE IF split_vec(r.tokens) = <<>>
         THEN [ok |-> FALSE, err |-> [kind |-> "Nothing to do"]]
         ELSE [ok |-> TRUE, expressions |-> split_vec(r.tokens)] :
         r \in {The({tokenize(lexemes, caret) : lexemes \in {get_lexemes(txt)}})}})

Init ==
    /\ exprbuf \in Inputs
    /\ caretIsExponent \in BOOLEAN
    /\ pc = "start"
    /\ expressions = <<>>
    /\ i = 0
    /\ result = NumberInt(0)
    /\ variables = EmptyVarMap
    /\ out = <<>>
    /\ operands = <<>>
    /\ atLeastOneOperation = FALSE
    /\ steps = 0
    /\ it = NoToken
    /\ status = "idle"
    /\ thrown = NoException
    /\ lexed = <<>>
    /\ current = 0
    /\ tokens = <<>>
    /\ call = NoCall
    /\ ret = Pending

\* the input tokenizes: the loop over the statements begins
Tokenize ==
    /\ pc = "start"
    /\ Startup(exprbuf, caretIsExponent).ok
    /\ expressions' = Startup(exprbuf, caretIsExponent).expressions
    /\ pc' = "loop"
    /\ UNCHANGED <<exprbuf, caretIsExponent, i, result, variables, out>>
    /\ UNCHANGED rpnVars
    /\ UNCHANGED tokVars
    /\ UNCHANGED fnVars

\* the tokenizer throws, or there is nothing to do: the catch of main
TokenizeFatal ==
    /\ pc = "start"
    /\ ~Startup(exprbuf, caretIsExponent).ok
    /\ out' = <<[kind |-> "fatal", err |-> Startup(exprbuf, caretIsExponent).err]>>
    /\ pc' = "fatal"
    /\ UNCHANGED <<exprbuf, caretIsExponent, expressions, i, result, variables>>
    /\ UNCHANGED rpnVars
    /\ UNCHANGED tokVars
    /\ UNCHANGED fnVars

\* the statement the loop is at
expr == expressions[i + 1]

\* expr.size() >= 2 && expr[0] is a Variable && expr[1] is a Setter
IsSetter(e) == Len(e) >= 2 /\ e[1].type = "Variable" /\ e[2].type = "Setter"

\* expr after expr.erase(begin, begin + 2) when it is a setter
Body(e) == IF IsSetter(e) THEN SubSeq(e, 3, Len(e)) ELSE e

\* ++it, ++i of the for loop
Advance ==
    /\ i' = i + 1
    /\ pc' = IF i + 1 = Len(expressions) THEN "done" ELSE "loop"

\* a loop that is left at the first failure
StmtRpnFailStops ==
    /\ pc = "loop"
    /\ ~(IsSetter(expr) /\ Body(expr) = <<>>)
    /\ ~to_rpn(Body(expr)).ok
    /\ out' = Append(out, [kind |-> "rpn_error", i |-> i, err |-> to_rpn(Body(expr)).err])
    /\ i' = i + 1
    /\ pc' = "done"
    /\ UNCHANGED <<exprbuf, caretIsExponent, expressions, result, variables>>
    /\ UNCHANGED rpnVars
    /\ UNCHANGED tokVars
    /\ UNCHANGED fnVars

\* "x =": the variable is erased
StmtUnset ==
    /\ pc = "loop"
    /\ IsSetter(expr) /\ Body(expr) = <<>>
    /\ variables' = VarMapErase(variables, expr[1].text)
    /\ out' = Append(out, [kind |-> "unset", i |-> i, name |-> expr[1].text])
    /\ Advance
    /\ UNCHANGED <<exprbuf, caretIsExponent, expressions, result>>
    /\ UNCHANGED rpnVars
    /\ UNCHANGED tokVars
    /\ UNCHANGED fnVars

\* to_rpn throws: the failure is reported, the loop continues
StmtRpnFail ==
    /\ pc = "loop"
    /\ ~(IsSetter(expr) /\ Body(expr) = <<>>)
    /\ ~to_rpn(Body(expr)).ok
    /\ out' = Append(out, [kind |-> "rpn_error", i |-> i, err |-> to_rpn(Body(expr)).err])
    /\ Advance
    /\ UNCHANGED <<exprbuf, caretIsExponent, expressions, result, variables>>
    /\ UNCHANGED rpnVars
    /\ UNCHANGED tokVars
    /\ UNCHANGED fnVars

\* an evaluation that keeps its result in the variable a
EvaluatedRemembering ==
    The({IF r.ok THEN [r EXCEPT !.varMap = VarMapSet(r.varMap, <<"a">>, r.value)] ELSE r :
         r \in {evaluate_rpn(to_rpn(Body(expr)).rpn, variables)}})

\* evaluate_rpn of the statement the loop is at
Evaluated == evaluate_rpn(to_rpn(Body(expr)).rpn, variables)

\* evaluate_rpn throws: the failure is reported, the loop continues
StmtEvalFail ==
    /\ pc = "loop"
    /\ ~(IsSetter(expr) /\ Body(expr) = <<>>)
    /\ to_rpn(Body(expr)).ok
    /\ ~Evaluated.ok
    /\ variables' = Evaluated.varMap
    /\ out' = Append(out, [kind |-> "eval_error", i |-> i, err |-> Evaluated.err])
    /\ Advance
    /\ UNCHANGED <<exprbuf, caretIsExponent, expressions, result>>
    /\ UNCHANGED rpnVars
    /\ UNCHANGED tokVars
    /\ UNCHANGED fnVars

\* "x = e" evaluated: variables[varName] = result
StmtAssign ==
    /\ pc = "loop"
    /\ IsSetter(expr) /\ Body(expr) # <<>>
    /\ to_rpn(Body(expr)).ok
    /\ Evaluated.ok
    /\ result' = Evaluated.value
    /\ variables' = VarMapSet(Evaluated.varMap, expr[1].text, Evaluated.value)
    /\ out' = Append(out, [kind |-> "set", i |-> i, name |-> expr[1].text,
                           value |-> Evaluated.value])
    /\ Advance
    /\ UNCHANGED <<exprbuf, caretIsExponent, expressions>>
    /\ UNCHANGED rpnVars
    /\ UNCHANGED tokVars
    /\ UNCHANGED fnVars

\* an expression evaluated: the result is printed
StmtPrint ==
    /\ pc = "loop"
    /\ ~IsSetter(expr)
    /\ to_rpn(Body(expr)).ok
    /\ Evaluated.ok
    /\ result' = Evaluated.value
    /\ variables' = Evaluated.varMap
    /\ out' = Append(out, [kind |-> "print", i |-> i, value |-> Evaluated.value])
    /\ Advance
    /\ UNCHANGED <<exprbuf, caretIsExponent, expressions>>
    /\ UNCHANGED rpnVars
    /\ UNCHANGED tokVars
    /\ UNCHANGED fnVars

Next ==
    \/ Tokenize
    \/ TokenizeFatal
    \/ StmtUnset
    \/ StmtRpnFail
    \/ StmtEvalFail
    \/ StmtAssign
    \/ StmtPrint

Spec == Init /\ [][Next]_vars

(***************************************************************************)
(* The stack machine: one call of evaluate_rpn, fed one token at a time.    *)
(* Tokens are drawn from the sets below; a step whose arithmetic leaves the *)
(* bounds of the model is not taken.                                        *)
(***************************************************************************)
token(type, txt) == [type |-> type, pos |-> 0, text |-> txt]

NumberTokens ==
    {token("OctalNumber", <<"0">>), token("IntNumber", <<"2">>),
     token("IntNumber", <<"5">>), token("IntNumber", <<"1", "0">>),
     token("RealNumber", <<"2", ".", "5">>), token("RealNumber", <<"0", ".", "0">>),
     token("RealNumber", <<"4", ".", "0">>)}

VariableNames == {<<"a">>, <<"b">>}

\* the text of the operators, as the tokenizer combines it
OperatorText ==
    [Factorial |-> <<"!">>, Exponent |-> <<"^">>, Negate |-> <<"-">>,
     Multiply |-> <<"*">>, Divide |-> <<"/">>, Modulo |-> <<"%">>,
     Add |-> <<"+">>, Subtract |-> <<"-">>,
     BitshiftLeft |-> <<"<", "<">>, BitshiftRight |-> <<">", ">">>,
     BitNOT |-> <<"~">>, BitAND |-> <<"&">>, BitOR |-> <<"|">>, BitXOR |-> <<"^">>,
     LogicalNOT |-> <<"!">>, Equal |-> <<"=", "=">>, NotEqual |-> <<"!", "=">>,
     LessThan |-> <<"<">>, LessOrEqual |-> <<"<", "=">>, GreaterThan |-> <<">">>,
     GreaterOrEqual |-> <<">", "=">>, LogicalOR |-> <<"|", "|">>,
     LogicalAND |-> <<"&", "&">>]

\* the sessions evaluate_rpn is called in: a undefined, integral or real
RpnVarMaps ==
    {EmptyVarMap,
     VarMapSet(EmptyVarMap, <<"a">>, NumberInt(2)),
     VarMapSet(EmptyVarMap, <<"a">>, NumberReal(5, 2))}

InitRpn ==
    /\ exprbuf = <<>>
    /\ caretIsExponent = FALSE
    /\ pc = "evaluate_rpn"
    /\ expressions = <<>>
    /\ i = 0
    /\ result = NumberInt(0)
    /\ variables \in RpnVarMaps
    /\ out = <<>>
    /\ operands = <<>>
    /\ atLeastOneOperation = FALSE
    /\ steps = 0
    /\ it = NoToken
    /\ status = "running"
    /\ thrown = NoException
    /\ lexed = <<>>
    /\ current = 0
    /\ tokens = <<>>
    /\ call = NoCall
    /\ ret = Pending

\* one iteration of the loop of evaluate_rpn, for the token tkn
Step(tkn) ==
    /\ \E r \in {EvalStep(tkn, operands, variables)} :
          /\ IF r.ok THEN TRUE ELSE r.err.kind # "outside the model"
          /\ it' = tkn
          /\ steps' = steps + 1
          /\ operands' = r.stack
          /\ variables' = r.varMap
          /\ atLeastOneOperation' = IF r.ok THEN atLeastOneOperation \/ r.operation
                                    ELSE atLeastOneOperation
          /\ status' = IF r.ok THEN "running" ELSE "thrown"
          /\ thrown' = IF r.ok THEN thrown ELSE r.err
    /\ UNCHANGED mainVars
    /\ UNCHANGED tokVars
    /\ UNCHANGED fnVars
    /\ UNCHANGED result

\* the loop has a token left to consume
Running == status = "running" /\ steps < MaxRpnLen

\* is_number(tkn.type)
RpnNumber ==
    /\ Running
    /\ \E tkn \in NumberTokens : Step(tkn)

\* tkn.type == Variable
RpnVariable ==
    /\ Running
    /\ \E name \in VariableNames : Step(token("Variable", name))

\* case FunctionName
RpnFunction ==
    /\ Running
    /\ \E name \in FunctionNames : Step(token("FunctionName", name))

\* the cases of the unary operators
RpnUnary ==
    /\ Running
    /\ \E type \in UnaryOperators : Step(token(type, OperatorText[type]))

\* the cases of the binary operators
RpnBinary ==
    /\ Running
    /\ \E type \in BinaryOperators : Step(token(type, OperatorText[type]))

\* the end of the expression: the value is returned or an exception thrown
RpnReturn ==
    /\ status = "running"
    /\ \E r \in {Return(operands, atLeastOneOperation)} :
          /\ status' = IF r.ok THEN "returned" ELSE "thrown"
          /\ thrown' = IF r.ok THEN thrown ELSE r.err
          /\ result' = IF r.ok THEN r.value ELSE result
    /\ UNCHANGED mainVars
    /\ UNCHANGED tokVars
    /\ UNCHANGED fnVars
    /\ UNCHANGED <<variables, operands, atLeastOneOperation, steps, it>>

NextRpn ==
    \/ RpnNumber
    \/ RpnVariable
    \/ RpnFunction
    \/ RpnUnary
    \/ RpnBinary
    \/ RpnReturn

SpecRpn == InitRpn /\ [][NextRpn]_vars

(***************************************************************************)
(* Calls of the library: Number::cast_to<T> for the fixed-width integer     *)
(* types, and the round trip of a binary literal through the lexer, the     *)
(* tokenizer, primitiveToNumber and num_to_bin.                             *)
(***************************************************************************)
\* the largest distance of a cast value from 0, min(T) and max(T)
MaxOffset == 2
\* the largest number of characters after the "0b" of a binary literal
MaxBinLen == 6

\* integral types T with std::numeric_limits<T>::min() and max()
FixedWidthTypes ==
    {[name |-> "int8_t", min |-> -128, max |-> 127],
     [name |-> "uint8_t", min |-> 0, max |-> 255],
     [name |-> "int16_t", min |-> -32768, max |-> 32767]}

\* cast_to_<int_t>(): static_cast of the value, which drops the fraction
IntegralPart(x) == TruncDiv(x.n, x.d)

\* a check of the value's kind alone, with no check of the range of T
can_fit_valueAnyIntegral(x, T) == has_integral_value(x)

\* can_fit_value<T>() for an integral T
can_fit_value(x, T) ==
    /\ has_integral_value(x)
    /\ IntegralPart(x) >= T.min
    /\ IntegralPart(x) <= T.max

\* what a conversion to T makes of a value outside of T: the value modulo
\* the size of T, or the nearest limit of T
Wrapped(v, T) == T.min + ((v - T.min) % (T.max - T.min + 1))

Saturated(v, T) == IF v < T.min THEN T.min ELSE IF v > T.max THEN T.max ELSE v

\* cast_to_<T>(): the static_cast, unchecked; the outcomes it can have
cast_to_(x, T) == {Wrapped(IntegralPart(x), T), Saturated(IntegralPart(x), T)}

precision_exception(x, T) ==
    [ok |-> FALSE,
     err |-> [kind |-> "conversion would lose precision",
              from |-> IF is_integer(x) THEN "cpp_int" ELSE "cpp_float",
              to |-> T.name]]

\* cast_to<T>() under the global NUMBER_THROW_ON_UNSAFE_CAST: the outcomes
cast_to(x, T, throwOnUnsafeCast) ==
    IF throwOnUnsafeCast /\ ~can_fit_value(x, T)
    THEN {precision_exception(x, T)}
    ELSE {Ok(v) : v \in cast_to_(x, T)}

\* bisc::ntos for a positive value: its digits in the base, the most
\* significant first
RECURSIVE ntos(_, _)
ntos(v, base) ==
    IF v = 0 THEN <<>>
    ELSE The({ntos(q, base) : q \in {v \div base}}) \o <<DigitChars[(v % base) + 1]>>

\* to_base(n, base)
to_base(n, base) ==
    IF ~has_integral_value(n)
    THEN [ok |-> FALSE, err |-> [kind |-> "Cannot convert floating-point value", base |-> base]]
    ELSE IF is_zero(n) THEN Ok(<<"0">>)
    ELSE Ok(ntos(IntegralPart(n), base))

\* a formatter that leaves the prefix out
num_to_binNoPrefix(num) == to_base(num, 2)

\* num_to_bin(num)
num_to_bin(num) ==
    IF ~has_integral_value(num)
    THEN [ok |-> FALSE, err |-> [kind |-> "Cannot convert floating-point value to binary"]]
    ELSE The({IF r.ok THEN Ok(<<"0", "b">> \o r.value) ELSE r : r \in {to_base(num, 2)}})

\* the text of a literal through get_lexemes, tokenize, primitiveToNumber
\* and num_to_bin; the literal must come out as one token
BinaryRoundTrip(txt) ==
    The({IF ~r.ok \/ Len(r.tokens) # 1
         THEN [ok |-> FALSE, err |-> [kind |-> "not one token"]]
         ELSE The({IF num.ok THEN num_to_bin(num.value) ELSE num :
                   num \in {primitiveToNumber(r.tokens[1])}}) :
         r \in {tokenize(get_lexemes(txt), FALSE)}})

\* the values a cast to T is tried on: around 0, min(T) and max(T), and the
\* same plus one half
CastIntegers(T) ==
    UNION {{d, T.min + d, T.max + d} : d \in (-MaxOffset)..MaxOffset}

CastNumbers(T) ==
    {NumberInt(v) : v \in CastIntegers(T)}
        \cup {NumberReal(2 * v + 1, 2) : v \in CastIntegers(T)}

CastCalls ==
    UNION {[fn : {"cast_to"}, x : CastNumbers(T), T : {T}, throwOnUnsafeCast : BOOLEAN] :
           T \in FixedWidthTypes}

\* what follows "0b" in a literal: binary digits, and underscores each
\* followed by a binary digit
BinaryBodies ==
    {body \in UNION {[1..n -> {"0", "1", "_"}] : n \in 1..MaxBinLen} :
        \A k \in 1..Len(body) :
            body[k] = "_" => (k < Len(body) /\ body[k + 1] # "_")}

BinaryCalls == {[fn |-> "num_to_bin", text |-> <<"0", "b">> \o body] : body \in BinaryBodies}

\* the longest token sequence to_rpn is called with
MaxTokens == 4

\* the tokens the sequences are made of
RpnBank ==
    {token("IntNumber", <<"1">>), token("Variable", <<"a">>),
     token("Add", <<"+">>), token("Multiply", <<"*">>),
     token("ExpressionOpen", <<"(">>), token("ExpressionClose", <<")">>),
     token("TermSeparator", <<",">>), token("FunctionName", <<"a", "b", "s">>)}

\* the tokens of a sequence, each at its own position
Placed(seq) == [k \in DOMAIN seq |-> [seq[k] EXCEPT !.pos = k - 1]]

RpnCalls ==
    {[fn |-> "to_rpn", primitives |-> Placed(seq)] :
        seq \in UNION {[1..n -> RpnBank] : n \in 1..MaxTokens}}

InitFn ==
    /\ exprbuf = <<>>
    /\ caretIsExponent = FALSE
    /\ pc = "call"
    /\ expressions = <<>>
    /\ i = 0
    /\ result = NumberInt(0)
    /\ variables = EmptyVarMap
    /\ out = <<>>
    /\ operands = <<>>
    /\ atLeastOneOperation = FALSE
    /\ steps = 0
    /\ it = NoToken
    /\ status = "idle"
    /\ thrown = NoException
    /\ lexed = <<>>
    /\ current = 0
    /\ tokens = <<>>
    /\ call \in CastCalls \cup BinaryCalls \cup RpnCalls
    /\ ret = Pending

\* x.cast_to<T>()
CastTo ==
    /\ call.fn = "cast_to"
    /\ ret = Pending
    /\ ret' \in cast_to(call.x, call.T, call.throwOnUnsafeCast)
    /\ UNCHANGED <<call, result, variables>>
    /\ UNCHANGED mainVars
    /\ UNCHANGED rpnVars
    /\ UNCHANGED tokVars

\* the literal is read, converted to a Number and formatted in base 2
NumToBin ==
    /\ call.fn = "num_to_bin"
    /\ ret = Pending
    /\ ret' = BinaryRoundTrip(call.text)
    /\ UNCHANGED <<call, result, variables>>
    /\ UNCHANGED mainVars
    /\ UNCHANGED rpnVars
    /\ UNCHANGED tokVars

\* to_rpn(primitives, fnMap)
ToRpn ==
    /\ call.fn = "to_rpn"
    /\ ret = Pending
    /\ ret' = to_rpn(call.primitives)
    /\ UNCHANGED <<call, result, variables>>
    /\ UNCHANGED mainVars
    /\ UNCHANGED rpnVars
    /\ UNCHANGED tokVars

NextFn ==
    \/ CastTo
    \/ NumToBin
    \/ ToRpn

SpecFn == InitFn /\ [][NextFn]_vars

(***************************************************************************)
(* One call of primitive_tokenizer::tokenize(), a primitive at a time: the  *)
(* lexemes of the text are held by the tokenizer, the bracket pre-pass      *)
(* runs first, then the loop calls getNextPrimitiveFrom until the           *)
(* end-of-file lexeme.                                                      *)
(***************************************************************************)
MaxPieces == 4

\* the pieces the texts are made of
Pieces ==
    {<<"(">>, <<")">>, <<";">>, <<"1">>, <<"-">>, <<"!">>, <<"=">>, <<" ">>,
     <<"a", "b", "s">>}

RECURSIVE Concat(_)
Concat(parts) ==
    IF parts = <<>> THEN <<>> ELSE parts[1] \o Concat(Tail(parts))

\* the boolean literals, alone and as an argument
BooleanInputs ==
    {<<"t", "r", "u", "e">>, <<"f", "a", "l", "s", "e">>,
     <<"a", "b", "s", "(", "t", "r", "u", "e", ")">>}

\* a registered name written as a call: name(1)
CallOf(name) == name \o <<"(", "1", ")">>

TokenizerInputs ==
    {Param(Concat(parts)) : parts \in UNION {[1..n -> Pieces] : n \in 1..MaxPieces}}
    \cup {Param(txt) : txt \in BooleanInputs}
    \cup {Param(CallOf(name)) : name \in RegisteredNames}

InitTok ==
    /\ exprbuf \in TokenizerInputs
    /\ caretIsExponent = FALSE
    /\ pc = "validate"
    /\ expressions = <<>>
    /\ i = 0
    /\ result = NumberInt(0)
    /\ variables = EmptyVarMap
    /\ out = <<>>
    /\ operands = <<>>
    /\ atLeastOneOperation = FALSE
    /\ steps = 0
    /\ it = NoToken
    /\ status = "idle"
    /\ thrown = NoException
    /\ lexed = get_lexemes(exprbuf)
    /\ current = 0
    /\ tokens = <<>>
    /\ call = NoCall
    /\ ret = Pending

\* the pre-pass finds every bracket matched: the loop starts at the first lexeme
BracketsMatched ==
    /\ pc = "validate"
    /\ ValidateBrackets(lexed, 1).kind = "none"
    /\ pc' = "primitives"
    /\ current' = 1
    /\ UNCHANGED <<exprbuf, caretIsExponent, expressions, i, out, lexed, tokens,
                   result, variables>>
    /\ UNCHANGED rpnVars
    /\ UNCHANGED fnVars

\* the pre-pass throws at the first unmatched bracket
BracketsUnmatched ==
    /\ pc = "validate"
    /\ ValidateBrackets(lexed, 1).kind # "none"
    /\ pc' = "fatal"
    /\ out' = <<[kind |-> "fatal", err |-> ValidateBrackets(lexed, 1).kind]>>
    /\ UNCHANGED <<exprbuf, caretIsExponent, expressions, i, lexed, current, tokens,
                   result, variables>>
    /\ UNCHANGED rpnVars
    /\ UNCHANGED fnVars

\* a loop that never passes the previous primitive
previousPrimitiveNone == <<>>

\* the primitive before the one being read: <<>> for nullptr
previousPrimitive == IF tokens = <<>> THEN <<>> ELSE <<tokens[Len(tokens)]>>

\* one turn of the loop: the next primitive is appended and the iterator
\* moves past its last lexeme
NextPrimitive ==
    /\ pc = "primitives"
    /\ current <= Len(lexed)
    /\ lexed[current].type # "_EOF"
    /\ \E r \in {getNextPrimitiveFrom(lexed, current, previousPrimitive, caretIsExponent)} :
          /\ tokens' = Append(tokens, r.tok)
          /\ current' = r.last + 1
    /\ UNCHANGED <<exprbuf, caretIsExponent, pc, expressions, i, out, lexed,
                   result, variables>>
    /\ UNCHANGED rpnVars
    /\ UNCHANGED fnVars

\* the loop reaches the end-of-file lexeme: tokenize() returns the primitives
ReturnPrimitives ==
    /\ pc = "primitives"
    /\ (IF current > Len(lexed) THEN TRUE ELSE lexed[current].type = "_EOF")
    /\ pc' = "tokenized"
    /\ UNCHANGED <<exprbuf, caretIsExponent, expressions, i, out, lexed, current,
                   tokens, result, variables>>
    /\ UNCHANGED rpnVars
    /\ UNCHANGED fnVars

NextTok ==
    \/ BracketsMatched
    \/ BracketsUnmatched
    \/ NextPrimitive
    \/ ReturnPrimitives

SpecTok == InitTok /\ [][NextTok]_vars

(***************************************************************************)
(* One call of lexer::get_lexemes(), a lexeme at a time: current is the     *)
(* getter position of the stream, lexed the lexemes read so far.            *)
(***************************************************************************)
MaxChars == 5

\* the characters the texts are made of
LexerAlphabet == {"0", "1", "_", ",", "b", " "}

LexerInputs ==
    {Param(txt) : txt \in UNION {[1..n -> LexerAlphabet] : n \in 1..MaxChars}}

InitLex ==
    /\ exprbuf \in LexerInputs
    /\ caretIsExponent = FALSE
    /\ pc = "lexing"
    /\ expressions = <<>>
    /\ i = 0
    /\ result = NumberInt(0)
    /\ variables = EmptyVarMap
    /\ out = <<>>
    /\ operands = <<>>
    /\ atLeastOneOperation = FALSE
    /\ steps = 0
    /\ it = NoToken
    /\ status = "idle"
    /\ thrown = NoException
    /\ lexed = <<>>
    /\ current = 0
    /\ tokens = <<>>
    /\ call = NoCall
    /\ ret = Pending

\* the stream is good: getNextLexeme() reads a lexeme of the text
LexemeRead ==
    /\ pc = "lexing"
    /\ getNextLexeme(exprbuf, current).lex.type # "_EOF"
    /\ lexed' = Append(lexed, getNextLexeme(exprbuf, current).lex)
    /\ current' = getNextLexeme(exprbuf, current).next
    /\ UNCHANGED <<exprbuf, caretIsExponent, pc, expressions, i, out, tokens,
                   result, variables>>
    /\ UNCHANGED rpnVars
    /\ UNCHANGED fnVars

\* getNextLexeme() meets the end of the stream: the end-of-file lexeme is the
\* last one, the stream is no longer good and get_lexemes() returns
EndOfStreamRead ==
    /\ pc = "lexing"
    /\ getNextLexeme(exprbuf, current).lex.type = "_EOF"
    /\ lexed' = Append(lexed, getNextLexeme(exprbuf, current).lex)
    /\ current' = getNextLexeme(exprbuf, current).next
    /\ pc' = "lexed"
    /\ UNCHANGED <<exprbuf, caretIsExponent, expressions, i, out, tokens,
                   result, variables>>
    /\ UNCHANGED rpnVars
    /\ UNCHANGED fnVars

NextLex ==
    \/ LexemeRead
    \/ EndOfStreamRead

SpecLex == InitLex /\ [][NextLex]_vars

(***************************************************************************)
(* Properties                                                               *)
(***************************************************************************)
\* the texts of the tokens of a statement
TextsOf(e) == [j \in 1..Len(e) |-> e[j].text]

\* statement k of the input reads "a + 1"
ReadsAPlusOne(k) == TextsOf(expressions[k]) = <<<<"a">>, <<"+">>, <<"1">>>>

\* the entries of out before entry k that set or unset the name
WritesBefore(k, name) ==
    {w \in 1..(k - 1) : out[w].kind \in {"set", "unset"} /\ out[w].name = name}

\* the last of them; 0 when there is none
LastWrite(k, name) ==
    IF WritesBefore(k, name) = {} THEN 0
    ELSE CHOOSE w \in WritesBefore(k, name) : \A v \in WritesBefore(k, name) : v <= w

\* the statements of an input text, as the text between the semicolons
RECURSIVE SourceStatements(_, _)
SourceStatements(txt, stmt) ==
    IF txt = <<>> THEN <<stmt>>
    ELSE IF txt[1] = ";" THEN <<stmt>> \o SourceStatements(Tail(txt), <<>>)
    ELSE SourceStatements(Tail(txt), Append(stmt, txt[1]))

\* every parenthesis of the text has its partner in the text
RECURSIVE ParenthesesMatch(_, _)
ParenthesesMatch(txt, depth) ==
    IF txt = <<>> THEN depth = 0
    ELSE IF txt[1] = "(" THEN ParenthesesMatch(Tail(txt), depth + 1)
    ELSE IF txt[1] = ")" THEN depth > 0 /\ ParenthesesMatch(Tail(txt), depth - 1)
    ELSE ParenthesesMatch(Tail(txt), depth)

\* the input has a statement with an unmatched parenthesis
SomeStatementUnmatched ==
    \E k \in 1..Len(SourceStatements(exprbuf, <<>>)) :
        ~ParenthesesMatch(SourceStatements(exprbuf, <<>>)[k], 0)

Printed(k, value) == [kind |-> "print", i |-> k, value |-> value]

\* C1: through tokenize, to_rpn and evaluate_rpn the input "a + b * c" prints
\* a + (b * c) and the input "(a + b) * c" prints (a + b) * c, for all
\* operands a, b, c from 0 to MaxOperand: * binds tighter than +, and a
\* parenthesized sub-expression is reduced first.
C1_PrecedenceAndParentheses ==
    pc = "done" =>
        \A a, b, c \in 0..MaxOperand :
            /\ exprbuf = SumOfProduct(a, b, c)
                  => out = <<Printed(0, NumberInt(a + (b * c)))>>
            /\ exprbuf = ProductOfSum(a, b, c)
                  => out = <<Printed(0, NumberInt((a + b) * c))>>

\* "2 + 3 * 4" has printed 14
C1_Witness ==
    /\ pc = "done"
    /\ exprbuf = SumOfProduct(2, 3, 4)
    /\ out = <<Printed(0, NumberInt(14))>>

\* C2: a statement that reads a ("a + 1") after a successful assignment to a
\* prints the value of the most recent successful assignment plus one, as
\* long as a was not unset in between; "a = 5; a + 1" prints 6.
C2_ReadSeesLastAssignment ==
    /\ \A k \in 1..Len(out) :
          (/\ pc \in {"loop", "done"}
           /\ ReadsAPlusOne(k)
           /\ LastWrite(k, <<"a">>) # 0
           /\ out[LastWrite(k, <<"a">>)].kind = "set")
          => out[k] = Printed(k - 1, NumAdd(out[LastWrite(k, <<"a">>)].value, NumberInt(1)))
    /\ (pc = "done" /\ exprbuf = Param(Join(<<<<"a", " ", "=", " ", "5">>, <<"a", " ", "+", " ", "1">>>>)))
          => out[2] = Printed(1, NumberInt(6))

\* "a = 5; a : 3; a + 1" has printed 4: the second assignment is the one read
C2_Witness ==
    /\ pc = "done"
    /\ exprbuf = Param(Join(<<<<"a", " ", "=", " ", "5">>, <<"a", " ", ":", " ", "3">>, <<"a", " ", "+", " ", "1">>>>))
    /\ out[3] = Printed(2, NumberInt(4))

\* C3: every statement the loop has passed left exactly one entry in out, in
\* the order of the statements, whether it failed in to_rpn, failed in
\* evaluate_rpn or succeeded; the run ends only after the last statement.
C3_FailureDoesNotStopTheRun ==
    pc \in {"loop", "done"} =>
        /\ Len(out) = i
        /\ \A k \in 1..Len(out) : out[k].i = k - 1
        /\ pc = "done" => i = Len(expressions)

\* a to_rpn failure and an evaluate_rpn failure were reported, and the
\* statement after them was evaluated and printed
C3_Witness ==
    /\ pc = "done"
    /\ Len(out) = 3
    /\ out[1].kind = "rpn_error"
    /\ out[2].kind = "eval_error"
    /\ out[3].kind = "print"

C5_VarMapChangesOnlyByAssignment ==
    [][variables' # variables =>
          /\ Len(out') = Len(out) + 1
          /\ out'[Len(out')].kind \in {"set", "unset"}
          /\ \A n \in (DOMAIN variables \cup DOMAIN variables') \ {out'[Len(out')].name} :
                /\ n \in DOMAIN variables
                /\ n \in DOMAIN variables'
                /\ variables'[n] = variables[n]
          /\ out'[Len(out')].kind = "set" =>
                /\ out'[Len(out')].name \in DOMAIN variables'
                /\ variables'[out'[Len(out')].name] = out'[Len(out')].value
          /\ out'[Len(out')].kind = "unset" =>
                out'[Len(out')].name \notin DOMAIN variables']_vars

\* "a = 5; a = 1 / 0": the failed assignment left a at 5
C5_Witness ==
    /\ pc = "done"
    /\ exprbuf = Param(Join(<<<<"a", " ", "=", " ", "5">>, <<"a", " ", "=", " ", "1", " ", "/", " ", "0">>>>))
    /\ out[2].kind = "eval_error"
    /\ variables[<<"a">>] = NumberInt(5)

\* C6: right after an unset statement the name is not defined, and a later
\* statement that reads a ("a + 1"), with no assignment to a in between,
\* fails with the undefined-variable error naming a.
C6_UnsetRemovesVariable ==
    /\ (Len(out) > 0 /\ out[Len(out)].kind = "unset")
          => ~isDefined(variables, out[Len(out)].name)
    /\ \A k \in 1..Len(out) :
          (/\ pc \in {"loop", "done"}
           /\ ReadsAPlusOne(k)
           /\ LastWrite(k, <<"a">>) # 0
           /\ out[LastWrite(k, <<"a">>)].kind = "unset")
          => out[k] = [kind |-> "eval_error", i |-> k - 1,
                       err |-> [kind |-> "undefined variable", name |-> <<"a">>]]

\* "a = 5; a =; a + 1": the read after the unset failed
C6_Witness ==
    /\ pc = "done"
    /\ exprbuf = Param(Join(<<<<"a", " ", "=", " ", "5">>, <<"a", " ", "=">>, <<"a", " ", "+", " ", "1">>>>))
    /\ out[3].kind = "eval_error"
    /\ out[3].err.kind = "undefined variable"

\* the step of evaluate_rpn just taken consumed a token of one of the types
Consumes(types) == status = "running" /\ steps' = steps + 1 /\ it'.type \in types

\* C7: when evaluate_rpn consumes Divide or Modulo with at least two
\* operands of which the right one (the top) is zero, it throws "Cannot
\* divide by zero" whatever the left operand is, and pushes nothing.
C7_DivisionByZeroFails ==
    [][(/\ Consumes({"Divide", "Modulo"})
        /\ Len(operands) >= 2
        /\ is_zero(operands[Len(operands)]))
       => /\ status' = "thrown"
          /\ thrown'.kind = "Cannot divide by zero"
          /\ Len(operands') < Len(operands)]_vars

\* 2.5 % 0 has thrown: the left operand is not an integer
C7_Witness ==
    /\ status = "thrown"
    /\ thrown.kind = "Cannot divide by zero"
    /\ it.type = "Modulo"
    /\ operands = <<NumberReal(5, 2)>>

\* the operand of the two on top of the stack that a bitwise operator
\* blames: the left one when it is not integral, else the right one
LeftOperand == operands[Len(operands) - 1]

RightOperand == operands[Len(operands)]

PushedArguments(name) ==
    SubSeq(operands, Len(operands) - getParamsCount(name) + 1, Len(operands))

\* C9: when evaluate_rpn consumes a FunctionName with at least arity
\* operands on the stack, it replaces the arity topmost operands by the
\* value of the function applied to them in the order they were pushed
\* (pow consumes base, then exponent) and leaves the operands below as
\* they were.
C9_ArgumentsInSourceOrder ==
    [][(/\ Consumes({"FunctionName"})
        /\ Len(operands) >= getParamsCount(it'.text))
       => /\ status' = "running"
          /\ Len(operands') = Len(operands) - getParamsCount(it'.text) + 1
          /\ SubSeq(operands', 1, Len(operands') - 1)
                = SubSeq(operands, 1, Len(operands) - getParamsCount(it'.text))
          /\ operands'[Len(operands')] = invoke(it'.text, PushedArguments(it'.text)).value
          /\ (it'.text = <<"p", "o", "w">>
              /\ PushedArguments(it'.text) = <<NumberInt(2), NumberInt(10)>>)
                => operands'[Len(operands')] = NumberInt(1024)]_vars

\* 5 2 10 pow: the stack holds 5 and 1024
C9_Witness ==
    /\ status = "running"
    /\ it = token("FunctionName", <<"p", "o", "w">>)
    /\ operands = <<NumberInt(5), NumberInt(1024)>>

\* C10 (as stated): the input "pow(2,10,5)" fails in to_rpn with the error
\* that names the expected parameter count 2 and the actual count 3.
C10_ArityErrorNamesCounts ==
    (pc = "done" /\ exprbuf = Param(<<"p", "o", "w", "(", "2", ",", "1", "0", ",", "5", ")">>))
        => out = <<[kind |-> "rpn_error", i |-> 0,
                    err |-> [kind |-> "parameter count", name |-> <<"p", "o", "w">>,
                             expected |-> 2, actual |-> 3]]>>

\* C11 (as stated): a call with the declared number of top-level arguments is
\* accepted whatever the shape of each argument: "pow(1 + 2, 2)",
\* "pow((1) + (2), 3)" and "max(min(1, 2), 3)" pass the arity check of
\* to_rpn and are evaluated, like "pow(2, 10)".
C11_ArityCountsTopLevelArguments ==
    (pc = "done" /\ exprbuf \in CallInputs) =>
        /\ Len(out) = 1
        /\ out[1].kind = "print"

\* the step just taken is the end of evaluate_rpn, after the last token
Returns == status = "running" /\ status' # "running" /\ steps' = steps

\* C12: at the end of the expression evaluate_rpn returns a value if and only
\* if exactly one operand is on the stack, and the value is that operand.
\* With no operand it throws "Invalid expression! (No operands)".  With more
\* than one it throws: after an operator or function has run, the error
\* names the top as the result and counts the operands below it; with no
\* operation at all, the error counts all the operands.
C12_ReturnsIffOneOperand ==
    [][Returns =>
          /\ status' = "returned" <=> Len(operands) = 1
          /\ status' = "returned" => result' = operands[1]
          /\ Len(operands) = 0 => thrown' = [kind |-> "No operands"]
          /\ (Len(operands) > 1 /\ atLeastOneOperation) =>
                thrown' = [kind |-> "unmatched operands",
                           result |-> operands[Len(operands)],
                           count |-> Len(operands) - 1]
          /\ (Len(operands) > 1 /\ ~atLeastOneOperation) =>
                thrown' = [kind |-> "No operators were specified",
                           count |-> Len(operands)]]_vars

\* 5 2 2 +: the expression evaluated to 4 with one operand unmatched
C12_Witness ==
    /\ status = "thrown"
    /\ operands = <<NumberInt(5), NumberInt(4)>>
    /\ thrown = [kind |-> "unmatched operands", result |-> NumberInt(4), count |-> 1]

\* the Numbers the evaluator holds: the operands, the result and the values
\* of the variables
NumbersHeld ==
    {operands[k] : k \in 1..Len(operands)} \cup {result}
        \cup {variables[n] : n \in DOMAIN variables}

\* C13: every Number that a constructor or an arithmetic operator produced
\* holds the real variant exactly when its value has a fractional part (the
\* fraction in lowest terms has a denominator other than 1); the literal
\* 4.0 becomes a Number for which is_integer() is true and which compares
\* equal to the integer 4.
C13_RealVariantOnlyWithFraction ==
    /\ \A x \in NumbersHeld :
          /\ ~is_integer(x) <=> x.d # 1
          /\ has_integral_value(x) => is_integer(x)
    /\ (status = "running" /\ it = token("RealNumber", <<"4", ".", "0">>)) =>
          /\ is_integer(operands[Len(operands)])
          /\ NumEq(operands[Len(operands)], NumberInt(4))

\* 4.0 2.5 2.5 +: the literal 4.0 and the sum 2.5 + 2.5 are both held as
\* integers
C13_Witness ==
    /\ status = "running"
    /\ steps = 4
    /\ it.type = "Add"
    /\ operands = <<NumberInt(4), NumberInt(5)>>

\* the Number is a whole number from min(T) to max(T)
IntegralWithin(x, T) == x.d = 1 /\ x.n >= T.min /\ x.n <= T.max

\* C14: with the check on (NUMBER_THROW_ON_UNSAFE_CAST), cast_to<T> for a
\* fixed-width integer type T returns the value unchanged when the Number
\* has an integral value within [min(T), max(T)], and throws the precision
\* error in every other case, returning no truncated or wrapped value; with
\* the check off it converts without throwing.
C14_CastChecksRangeAndPrecision ==
    (call.fn = "cast_to" /\ ret # Pending) =>
        /\ (call.throwOnUnsafeCast /\ IntegralWithin(call.x, call.T))
              => ret = Ok(call.x.n)
        /\ (call.throwOnUnsafeCast /\ ~IntegralWithin(call.x, call.T))
              => (~ret.ok /\ ret.err.kind = "conversion would lose precision")
        /\ ~call.throwOnUnsafeCast => ret.ok

\* 128 does not fit int8_t: the cast threw the precision error
C14_Witness ==
    /\ call.fn = "cast_to"
    /\ call.T.name = "int8_t"
    /\ call.x = NumberInt(128)
    /\ call.throwOnUnsafeCast
    /\ ret = precision_exception(NumberInt(128), call.T)

\* the characters of a literal that follow "0b"
BodyOf(txt) == SubSeq(txt, 3, Len(txt))

IsBinaryDigit(c) == c # "_"

\* digits without their leading zeros; a zero that is the only digit stays
RECURSIVE WithoutLeadingZeros(_)
WithoutLeadingZeros(digits) ==
    IF Len(digits) > 1 /\ digits[1] = "0" THEN WithoutLeadingZeros(Tail(digits))
    ELSE digits

\* C18: a binary literal "0b<digits>" that is read (lexer, tokenizer),
\* converted to a Number and formatted in base 2 comes back as "0b"
\* followed by the same digits with the underscores and the leading zeros
\* removed: "0b1010" -> 10 -> "0b1010".
C18_BinaryLiteralRoundTrip ==
    (call.fn = "num_to_bin" /\ ret # Pending) =>
        ret = Ok(<<"0", "b">>
                 \o WithoutLeadingZeros(SelectSeq(BodyOf(call.text), IsBinaryDigit)))

\* "0b0_1010" came back as "0b1010"
C18_Witness ==
    /\ call.fn = "num_to_bin"
    /\ call.text = <<"0", "b", "0", "_", "1", "0", "1", "0">>
    /\ ret = Ok(<<"0", "b", "1", "0", "1", "0">>)


(***************************************************************************)
(* C15: for every input the tokenizer accepts, the output token sequence   *)
(* is parenthesis-balanced: there are as many ExpressionOpen as             *)
(* ExpressionClose tokens, no prefix of a statement has more closes than    *)
(* opens, and every FunctionName token is immediately followed by an        *)
(* ExpressionOpen token.                                                    *)
(***************************************************************************)
\* the tokens of the type among tokens[a .. b]
TokensOfType(type, a, b) == {k \in a..b : tokens[k].type = type}

\* the first token of the statement that token k belongs to
StatementStart(k) ==
    IF TokensOfType("Separator", 1, k - 1) = {} THEN 1
    ELSE 1 + CHOOSE s \in TokensOfType("Separator", 1, k - 1) :
                 \A t \in TokensOfType("Separator", 1, k - 1) : t <= s

C15_AcceptedTokensAreBalanced ==
    pc = "tokenized" =>
        /\ Cardinality(TokensOfType("ExpressionOpen", 1, Len(tokens)))
             = Cardinality(TokensOfType("ExpressionClose", 1, Len(tokens)))
        /\ \A k \in 1..Len(tokens) :
              Cardinality(TokensOfType("ExpressionClose", StatementStart(k), k))
                <= Cardinality(TokensOfType("ExpressionOpen", StatementStart(k), k))
        /\ \A k \in 1..Len(tokens) :
              tokens[k].type = "FunctionName" =>
                  /\ k < Len(tokens)
                  /\ tokens[k + 1].type = "ExpressionOpen"

\* abs(1) is accepted: a function name, its opening and its closing token
C15_Witness ==
    /\ pc = "tokenized"
    /\ Len(tokens) = 4
    /\ tokens[1].type = "FunctionName"
    /\ tokens[2].type = "ExpressionOpen"
    /\ tokens[4].type = "ExpressionClose"


(***************************************************************************)
(* C16: tokenize() validates brackets in a pre-pass before emitting any     *)
(* token: it fails with an unmatched-bracket syntax error if and only if,   *)
(* within some semicolon-delimited statement, the parentheses are not       *)
(* balanced (a close with no earlier unmatched open, or an open with no     *)
(* close before the next ; or the end); parentheses never pair across a ;.  *)
(***************************************************************************)
UnmatchedBracketErrors == {"Unmatched open bracket", "Unmatched close bracket"}

C16_PrePassFailsIffUnbalancedStatement ==
    /\ pc = "validate" => tokens = <<>>
    /\ pc = "fatal" =>
          /\ tokens = <<>>
          /\ Len(out) = 1
          /\ out[1].err \in UnmatchedBracketErrors
          /\ SomeStatementUnmatched
    /\ pc \in {"primitives", "tokenized"} => ~SomeStatementUnmatched

\* (;) has as many opens as closes, yet each statement has one without partner
C16_Witness ==
    /\ pc = "fatal"
    /\ exprbuf = Param(<<"(", ";", ")">>)
    /\ out = <<[kind |-> "fatal", err |-> "Unmatched open bracket"]>>
    /\ tokens = <<>>


(***************************************************************************)
(* C17: evaluation is deterministic and repeatable: evaluating the same     *)
(* non-assigning expression twice against the same FunctionMap and an       *)
(* unchanged VarMap yields identical results (or the identical error), and  *)
(* the first evaluation leaves no state behind that could change the        *)
(* second.                                                                  *)
(***************************************************************************)
\* statements j and k of the input are the same tokens
SameExpression(j, k) ==
    /\ Len(expressions[j]) = Len(expressions[k])
    /\ \A t \in 1..Len(expressions[j]) :
          /\ expressions[j][t].type = expressions[k][t].type
          /\ expressions[j][t].text = expressions[k][t].text

\* entry w of out reports the statement the loop is at now, and no variable
\* was set or unset since
EvaluatedBefore(w) ==
    /\ SameExpression(out[w].i + 1, i + 1)
    /\ \A v \in w..Len(out) : out[v].kind \notin {"set", "unset"}

\* two reports that differ in nothing but the number of the statement
SameOutcome(a, b) == [a EXCEPT !.i = 0] = [b EXCEPT !.i = 0]

C17_EvaluationRepeatable ==
    [][(pc = "loop" /\ ~IsSetter(expr)) =>
          /\ variables' = variables
          /\ Len(out') = Len(out) + 1
          /\ \A w \in 1..Len(out) :
                EvaluatedBefore(w) => SameOutcome(out[w], out'[Len(out')])]_vars

\* a = 5; a + 1; a + 1 prints 6 twice
C17_Witness ==
    /\ pc = "done"
    /\ Len(expressions) = 3
    /\ IsSetter(expressions[1])
    /\ SameExpression(2, 3)
    /\ Len(out) = 3
    /\ out[2] = [kind |-> "print", i |-> 1, value |-> NumberInt(6)]
    /\ out[3] = [kind |-> "print", i |-> 2, value |-> NumberInt(6)]


(***************************************************************************)
(* C19: the tokenizer classifies - as Negate if and only if (it is the      *)
(* first token, or the previous primitive does not itself evaluate to a     *)
(* number, or the previous primitive is ExpressionOpen) and the following   *)
(* lexeme evaluates to a number; in every other case it is Subtract.        *)
(***************************************************************************)
\* the loop of tokenize() is at a lexeme with this text
ReadsLexeme(txt) ==
    /\ pc = "primitives"
    /\ current <= Len(lexed)
    /\ lexed[current].type = "Operator"
    /\ lexed[current].text = txt

\* the primitive the step appends
Emitted == tokens'[Len(tokens')]

\* the lexeme after the one being read starts an operand
OperandFollows ==
    /\ current + 1 <= Len(lexed)
    /\ lexeme_evaluates_to_number(lexed[current + 1].type)

\* nothing before the - can be its left operand
NoLeftOperand ==
    \/ tokens = <<>>
    \/ ~evaluates_to_number(tokens[Len(tokens)].type)
    \/ tokens[Len(tokens)].type = "ExpressionOpen"

C19_NegateOrSubtract ==
    [][ReadsLexeme(<<"-">>) =>
          /\ Len(tokens') = Len(tokens) + 1
          /\ current' = current + 1
          /\ Emitted.text = <<"-">>
          /\ Emitted.type = (IF NoLeftOperand /\ OperandFollows
                             THEN "Negate" ELSE "Subtract")]_vars

\* in 1--1 the first - is Subtract and the second Negate
C19_Witness ==
    /\ pc = "tokenized"
    /\ exprbuf = Param(<<"1", "-", "-", "1">>)
    /\ Len(tokens) = 4
    /\ tokens[2].type = "Subtract"
    /\ tokens[3].type = "Negate"


(***************************************************************************)
(* C20: the tokenizer classifies ! as Factorial if and only if it is        *)
(* adjacent (no whitespace) to a preceding number-evaluable token; ! with   *)
(* an adjacent following = is the single token NotEqual; in every other     *)
(* case ! is LogicalNOT.                                                    *)
(***************************************************************************)
\* the character of the text at an offset counted from 0; a blank outside
CharAt(offset) ==
    IF offset >= 0 /\ offset < Len(exprbuf) THEN exprbuf[offset + 1] ELSE " "

\* the character right after the ! is =
EqualFollows == CharAt(lexed[current].pos + 1) = "="

\* the character right before the ! is the end of a token that evaluates
\* to a number
OperandBefore ==
    /\ tokens # <<>>
    /\ evaluates_to_number(tokens[Len(tokens)].type)
    /\ CharAt(lexed[current].pos - 1) # " "

C20_FactorialNotEqualOrLogicalNOT ==
    [][ReadsLexeme(<<"!">>) =>
          /\ Len(tokens') = Len(tokens) + 1
          /\ IF EqualFollows
             THEN /\ Emitted.type = "NotEqual"
                  /\ Emitted.text = <<"!", "=">>
                  /\ current' = current + 2
             ELSE /\ Emitted.text = <<"!">>
                  /\ current' = current + 1
                  /\ Emitted.type = (IF OperandBefore THEN "Factorial"
                                     ELSE "LogicalNOT")]_vars

\* in 1! ! the first ! is Factorial and the second, after a blank, LogicalNOT
C20_Witness ==
    /\ pc = "tokenized"
    /\ exprbuf = Param(<<"1", "!", " ", "!">>)
    /\ Len(tokens) = 3
    /\ tokens[2].type = "Factorial"
    /\ tokens[3].type = "LogicalNOT"


(***************************************************************************)
(* C21: all binary operators are left-associative, with the earlier         *)
(* operand as the left one: for operators of equal precedence               *)
(* a op1 b op2 c evaluates as (a op1 b) op2 c, so a - b - c is (a - b) - c, *)
(* a / b / c is (a / b) / c, and with ^ as Exponent a ^ b ^ c is            *)
(* (a ^ b) ^ c.                                                             *)
(***************************************************************************)
\* l op r over the integers; no value after a division by zero
Undefined == [defined |-> FALSE]

Defined(v) == [defined |-> TRUE, v |-> v]

Applied(op, l, r) ==
    IF ~l.defined THEN Undefined
    ELSE CASE op = "-" -> Defined(l.v - r)
           [] op = "+" -> Defined(l.v + r)
           [] op = "*" -> Defined(l.v * r)
           [] op = "/" -> IF r = 0 THEN Undefined ELSE Defined(l.v \div r)
           [] op = "^" -> Defined(IF caretIsExponent THEN IntPow(l.v, r)
                                  ELSE BitXorNat(l.v, r))

\* what main reports for the only statement of the input
Reported(x) ==
    IF ~x.defined
    THEN [kind |-> "eval_error", i |-> 0, err |-> [kind |-> "Cannot divide by zero"]]
    ELSE [kind |-> "print", i |-> 0, value |-> NumberInt(x.v)]

C21_LeftAssociative ==
    pc = "done" =>
        \A ops \in ChainOperators : \A a, b, c \in 0..MaxOperand :
            exprbuf = Chain(a, ops[1], b, ops[2], c) =>
                out = <<Reported(Applied(ops[2], Applied(ops[1], Defined(a), b), c))>>

\* 2 ^ 3 ^ 2 with ^ as Exponent is 8 ^ 2, not 2 ^ 9
C21_Witness ==
    /\ pc = "done"
    /\ caretIsExponent
    /\ exprbuf = Chain(2, "^", 3, "^", 2)
    /\ out = <<[kind |-> "print", i |-> 0, value |-> NumberInt(64)]>>


(***************************************************************************)
(* C22: an adjacent run of Alpha lexemes is classified as follows: the runs *)
(* true and false become a Boolean token; otherwise, if the run is          *)
(* immediately followed by ( and is a name known to the FunctionMap, it     *)
(* becomes one FunctionName token; otherwise it becomes exactly one         *)
(* Variable token whose text is the whole run.                              *)
(***************************************************************************)
\* the loop of tokenize() is at the first lexeme of a run of letters
ReadsAlpha ==
    /\ pc = "primitives"
    /\ current <= Len(lexed)
    /\ lexed[current].type = "Alpha"

\* the letters of the text from the lexeme on, up to the first other character
AlphaRun ==
    TextRange(exprbuf, lexed[current].pos,
              getWhile(exprbuf, lexed[current].pos, Letters))

\* the lexeme after the run
AfterRun == lexed[current + Len(AlphaRun)]

BooleanLiterals == {<<"t", "r", "u", "e">>, <<"f", "a", "l", "s", "e">>}

C22_AlphaRunClassified ==
    [][ReadsAlpha =>
          /\ Len(tokens') = Len(tokens) + 1
          /\ current' = current + Len(AlphaRun)
          /\ Emitted.text = AlphaRun
          /\ Emitted.type =
                (IF AlphaRun \in BooleanLiterals THEN "Boolean"
                 ELSE IF AfterRun.type = "ParenthesisOpen" /\ isFunction(AlphaRun)
                      THEN "FunctionName"
                      ELSE "Variable")]_vars

\* the same, with no Boolean token: what the tokenizer does
C22_RunIsFunctionNameOrVariable ==
    [][ReadsAlpha =>
          /\ Len(tokens') = Len(tokens) + 1
          /\ current' = current + Len(AlphaRun)
          /\ Emitted.text = AlphaRun
          /\ Emitted.type =
                (IF AfterRun.type = "ParenthesisOpen" /\ isFunction(AlphaRun)
                 THEN "FunctionName"
                 ELSE "Variable")]_vars

\* true is tokenized as the variable true
C22_Witness ==
    /\ pc = "tokenized"
    /\ exprbuf = Param(<<"t", "r", "u", "e">>)
    /\ tokens = <<[type |-> "Variable", pos |-> 0, text |-> <<"t", "r", "u", "e">>]>>


(***************************************************************************)
(* C23: the lexer emits exactly one IntNumber lexeme, covering the whole    *)
(* literal, for every decimal integer literal of the grammar                *)
(* [1-9][0-9,_]* in which each , or _ stands between two digits (for        *)
(* example 1_000, 12_345, 1,000).                                           *)
(***************************************************************************)
\* the literals of the grammar over the characters of the model
DecimalLiterals ==
    {lit \in UNION {[1..n -> {"0", "1", "_", ","}] : n \in 1..MaxChars} :
        /\ lit[1] = "1"
        /\ \A k \in 1..Len(lit) :
              lit[k] \in {"_", ","} =>
                  /\ k < Len(lit)
                  /\ lit[k - 1] \in {"0", "1"}
                  /\ lit[k + 1] \in {"0", "1"}}

C23_DecimalLiteralIsOneLexeme ==
    pc = "lexed" =>
        \A lit \in DecimalLiterals :
            exprbuf = Param(lit) =>
                /\ Len(lexed) = 2
                /\ lexed[1] = [type |-> "IntNumber", pos |-> 0, text |-> lit]

\* 1_000 is read as the number 1, an underscore and the octal number 000
C23_Witness ==
    /\ pc = "lexed"
    /\ exprbuf = Param(<<"1", "_", "0", "0", "0">>)
    /\ Len(lexed) = 4
    /\ lexed[1] = [type |-> "IntNumber", pos |-> 0, text |-> <<"1">>]
    /\ lexed[2].type = "Underscore"
    /\ lexed[3] = [type |-> "OctalNumber", pos |-> 2, text |-> <<"0", "0", "0">>]

(***************************************************************************)
(* C24: in every BinaryNumber lexeme the lexer produces, each underscore    *)
(* stands between two binary digits: the text after 0b never starts or      *)
(* ends with _, and never contains two underscores in a row.                *)
(***************************************************************************)
\* the text of a binary literal after the prefix 0b
AfterPrefix(lex) == SubSeq(lex.text, 3, Len(lex.text))

C24_UnderscoreBetweenBinaryDigits ==
    \A k \in 1..Len(lexed) :
        lexed[k].type = "BinaryNumber" =>
            \A j \in 1..Len(AfterPrefix(lexed[k])) :
                AfterPrefix(lexed[k])[j] = "_" =>
                    /\ j > 1
                    /\ j < Len(AfterPrefix(lexed[k]))
                    /\ isbinarydigit(AfterPrefix(lexed[k])[j - 1])
                    /\ isbinarydigit(AfterPrefix(lexed[k])[j + 1])

\* 0b_1 is one binary literal
C24_Witness ==
    /\ pc = "lexed"
    /\ exprbuf = Param(<<"0", "b", "_", "1">>)
    /\ lexed[1] = [type |-> "BinaryNumber", pos |-> 0, text |-> <<"0", "b", "_", "1">>]

(***************************************************************************)
(* C25: for any two consecutive lexemes produced by the lexer, the second   *)
(* starts at or after the end offset of the first (pos + text length), and  *)
(* starts exactly at that end offset if and only if no whitespace separates *)
(* them in the source; whitespace itself is never emitted as a lexeme.      *)
(***************************************************************************)
\* the offsets of the text from the end of lexeme k to the start of the next
Gap(k) == (lexed[k].pos + Len(lexed[k].text))..(lexed[k + 1].pos - 1)

C25_OffsetsContiguousUpToWhitespace ==
    /\ \A k \in 1..(Len(lexed) - 1) :
          /\ lexed[k + 1].pos >= lexed[k].pos + Len(lexed[k].text)
          /\ \A o \in Gap(k) : exprbuf[o + 1] = " "
          /\ (lexed[k + 1].pos = lexed[k].pos + Len(lexed[k].text))
                <=> ~\E o \in Gap(k) : exprbuf[o + 1] = " "
    /\ \A k \in 1..Len(lexed) :
          lexed[k].type # "_EOF" =>
              /\ lexed[k].text = SubSeq(exprbuf, lexed[k].pos + 1,
                                        lexed[k].pos + Len(lexed[k].text))
              /\ \A j \in 1..Len(lexed[k].text) : lexed[k].text[j] # " "

\* in "1 ,0" the comma starts two past the 1 and the 0 right after the comma
C25_Witness ==
    /\ pc = "lexed"
    /\ exprbuf = Param(<<"1", " ", ",", "0">>)
    /\ Len(lexed) = 4
    /\ lexed[1].pos = 0
    /\ lexed[2].pos = 2
    /\ lexed[3].pos = 3


(***************************************************************************)
(* C26: for + - * /, two integer operands give an integer result computed   *)
(* in integer arithmetic (so 7 / 2 is the integer 3), two real operands     *)
(* give a real-arithmetic result, and one operand of each variant promotes  *)
(* both to real; in every case the result is re-normalized to the integer   *)
(* variant when it is whole (0.5 + 0.5 is the integer 1).                   *)
(***************************************************************************)
\* l op r over the integers, the quotient without its fraction
IntegerResult(type, l, r) ==
    CASE type = "Add" -> l + r
      [] type = "Subtract" -> l - r
      [] type = "Multiply" -> l * r
      [] type = "Divide" ->
            IF (l < 0) = (r < 0) THEN Abs(l) \div Abs(r) ELSE -(Abs(l) \div Abs(r))

\* l op r over the fractions: numerator and denominator, not reduced
FractionResult(type, l, r) ==
    CASE type = "Add" -> [num |-> l.n * r.d + r.n * l.d, den |-> l.d * r.d]
      [] type = "Subtract" -> [num |-> l.n * r.d - r.n * l.d, den |-> l.d * r.d]
      [] type = "Multiply" -> [num |-> l.n * r.n, den |-> l.d * r.d]
      [] type = "Divide" -> [num |-> l.n * r.d, den |-> l.d * r.n]

\* x is the fraction f, held as an integer exactly when f is whole
HoldsFraction(x, f) ==
    /\ x.n * f.den = f.num * x.d
    /\ x.d >= 1
    /\ is_integer(x) <=> f.num % Abs(f.den) = 0
    /\ is_integer(x) => x.d = 1

C26_ArithmeticVariants ==
    [][(/\ Consumes({"Add", "Subtract", "Multiply", "Divide"})
        /\ Len(operands) >= 2
        /\ ~(it'.type = "Divide" /\ is_zero(RightOperand)))
       => /\ status' = "running"
          /\ Len(operands') = Len(operands) - 1
          /\ IF is_integer(LeftOperand) /\ is_integer(RightOperand)
             THEN operands'[Len(operands')]
                    = NumberInt(IntegerResult(it'.type, LeftOperand.n, RightOperand.n))
             ELSE HoldsFraction(operands'[Len(operands')],
                                FractionResult(it'.type, LeftOperand, RightOperand))]_vars

\* 2 5 /: the quotient of two integers is the integer 0
C26_Witness ==
    /\ status = "running"
    /\ steps = 3
    /\ it.type = "Divide"
    /\ operands = <<NumberInt(0)>>
    /\ atLeastOneOperation


(***************************************************************************)
(* C28: every name registered in FunctionMap, including the names that      *)
(* contain digits (atan2, log10, log2, exp2, expm1, log1p), is tokenized as *)
(* one FunctionName token when written immediately followed by (, so every  *)
(* registered function can be called from an expression.                    *)
(***************************************************************************)
C28_RegisteredNameIsFunctionName ==
    pc = "tokenized" =>
        \A name \in RegisteredNames :
            exprbuf = Param(CallOf(name)) =>
                /\ Len(tokens) = 4
                /\ tokens[1] = [type |-> "FunctionName", pos |-> 0, text |-> name]
                /\ tokens[2].type = "ExpressionOpen"

\* atan2(1) is the variable atan, the number 2 and a parenthesized 1
C28_Witness ==
    /\ pc = "tokenized"
    /\ exprbuf = Param(CallOf(<<"a", "t", "a", "n", "2">>))
    /\ Len(tokens) = 5
    /\ tokens[1] = [type |-> "Variable", pos |-> 0, text |-> <<"a", "t", "a", "n">>]
    /\ tokens[2] = [type |-> "IntNumber", pos |-> 4, text |-> <<"2">>]
    /\ tokens[3].type = "ExpressionOpen"

\* the names without a digit are tokenized as function names
C28_LetterNamesAreFunctionNames ==
    pc = "tokenized" =>
        \A name \in RegisteredNames :
            (exprbuf = Param(CallOf(name)) /\ \A k \in 1..Len(name) : isalpha(name[k])) =>
                /\ Len(tokens) = 4
                /\ tokens[1] = [type |-> "FunctionName", pos |-> 0, text |-> name]


(***************************************************************************)
(* C27: for every syntactically valid infix expression, including one       *)
(* where a prefix unary operator (Negate, BitNOT, LogicalNOT) directly      *)
(* follows a binary operator of equal or higher precedence (as in 1 + ~5,   *)
(* 3 * !0, 2 ^ -3 with ^ as Exponent, or a doubled prefix ~~5), to_rpn      *)
(* emits every operator after all of its operands, so evaluate_rpn of the   *)
(* result never fails for lack of operands and yields the value of the      *)
(* infix expression.                                                        *)
(***************************************************************************)
C27_PrefixOperatorAfterItsOperand ==
    pc = "done" =>
        \A k \in DOMAIN PrefixCases :
            exprbuf = Param(PrefixCases[k].text) =>
                out = <<[kind |-> "print", i |-> 0,
                         value |-> NumberInt(PrefixCases[k].value)]>>

\* 1 + ~5 : the + is emitted before the 5, and finds one operand
C27_Witness ==
    /\ pc = "done"
    /\ exprbuf = Param(PrefixCases[1].text)
    /\ TextsOf(to_rpn(expressions[1]).rpn) = <<<<"1">>, <<"+">>, <<"5">>, <<"~">>>>
    /\ Len(out) = 1
    /\ out[1].kind = "eval_error"
    /\ out[1].err.kind = "Not enough operands"

\* a prefix operator after a binary operator of lower precedence is emitted
\* in its place
C27_PrefixAfterLowerPrecedence ==
    pc = "done" =>
        \A k \in {4, 5} :
            exprbuf = Param(PrefixCases[k].text) =>
                out = <<[kind |-> "print", i |-> 0,
                         value |-> NumberInt(PrefixCases[k].value)]>>


(***************************************************************************)
(* C29: for every token sequence with balanced parentheses that to_rpn      *)
(* accepts, the output contains no ExpressionOpen, ExpressionClose or       *)
(* TermSeparator token, contains every other input token exactly once, and  *)
(* keeps the operand tokens (numbers and variables) in their input order.   *)
(***************************************************************************)
\* the parentheses of tokens[k ..] match, depth of them being open
RECURSIVE Balanced(_, _, _)
Balanced(seq, k, depth) ==
    IF k > Len(seq) THEN depth = 0
    ELSE IF seq[k].type = "ExpressionOpen" THEN Balanced(seq, k + 1, depth + 1)
    ELSE IF seq[k].type = "ExpressionClose"
         THEN depth > 0 /\ Balanced(seq, k + 1, depth - 1)
    ELSE Balanced(seq, k + 1, depth)

Discarded(tkn) == tkn.type \in {"ExpressionOpen", "ExpressionClose", "TermSeparator"}

IsOperand(tkn) == tkn.type \in NumberTypes \cup {"Variable"}

\* to_rpn has returned for a sequence with balanced parentheses
Converted ==
    /\ call.fn = "to_rpn"
    /\ ret # Pending
    /\ ret.ok
    /\ Balanced(call.primitives, 1, 0)

C29_OutputIsThePermutedInput ==
    Converted =>
        /\ \A j \in 1..Len(ret.rpn) : ~Discarded(ret.rpn[j])
        /\ \A k \in 1..Len(call.primitives) :
              ~Discarded(call.primitives[k]) =>
                  Cardinality({j \in 1..Len(ret.rpn) : ret.rpn[j] = call.primitives[k]}) = 1
        /\ \A j \in 1..Len(ret.rpn) :
              \E k \in 1..Len(call.primitives) : ret.rpn[j] = call.primitives[k]
        /\ SelectSeq(ret.rpn, IsOperand) = SelectSeq(call.primitives, IsOperand)

\* abs ( 1 ) is converted to 1 abs
C29_Witness ==
    /\ Converted
    /\ Len(call.primitives) = 4
    /\ call.primitives[2].type = "ExpressionOpen"
    /\ ret.rpn = <<[token("IntNumber", <<"1">>) EXCEPT !.pos = 2],
                   token("FunctionName", <<"a", "b", "s">>)>>


(***************************************************************************)
(* C30: evaluate_rpn never pops an empty operand stack: for every RPN       *)
(* token sequence, before each operator or function step it checks that     *)
(* the stack holds at least as many operands as the step needs (1 for       *)
(* Negate, Factorial, BitNOT, LogicalNOT; 2 for the other operators; arity  *)
(* for a function) and fails with a not-enough-operands error otherwise,    *)
(* and after every successful step the stack holds at least one value.      *)
(***************************************************************************)
\* the operands the step for a token needs
Needs(tkn) ==
    IF tkn.type = "FunctionName" THEN getParamsCount(tkn.text)
    ELSE IF tkn.type \in {"Negate", "Factorial", "BitNOT", "LogicalNOT"} THEN 1
    ELSE 2

NotEnoughOperands == {"Not enough operands", "function takes more operands"}

C30_OperandsCheckedBeforePopping ==
    [][Consumes(UnaryOperators \cup BinaryOperators \cup {"FunctionName"}) =>
          /\ Len(operands) < Needs(it') =>
                /\ status' = "thrown"
                /\ thrown'.kind \in NotEnoughOperands
          /\ Len(operands) >= Needs(it') =>
                /\ status' = "thrown" => thrown'.kind \notin NotEnoughOperands
                /\ status' = "running" =>
                      /\ Len(operands') = Len(operands) - Needs(it') + 1
                      /\ Len(operands') >= 1]_vars

\* 2 pow: the function finds one of its two operands
C30_Witness ==
    /\ status = "thrown"
    /\ steps = 2
    /\ it.type = "FunctionName"
    /\ thrown = [kind |-> "function takes more operands", name |-> <<"p", "o", "w">>,
                 expected |-> 2, actual |-> 1]

====
